---- MODULE Spec2Model ----
(***************************************************************************)
(* Kithscord, as state machines over the single asyncio event loop the bot *)
(* runs on: the external tool guard (kithscord/utils/utils.py:             *)
(* pull_kithare, setup_kcr, run_kcr), the paginated display controller     *)
(* (kithscord/utils/embed_utils.py: PagedEmbed), the command dispatchers   *)
(* (Kithscord/commands.py and kithscord/commands), kh!help, kh!pull        *)
(* kithscord, and the command log (kithscord/__init__.py).                 *)
(***************************************************************************)
EXTENDS Integers, Sequences, FiniteSets, TLC

(***************************************************************************)
(* Bounds of the model.                                                    *)
(***************************************************************************)
\* number of concurrently scheduled pull_kithare / run_kcr calls
NumTasks == 2

Tasks == 1..NumTasks

VARIABLES
    \* ---- external tool guard ----
    is_pulling,   \* utils.is_pulling, the process-wide flag
    installed,    \* dist.is_file(): the kcr binary is present
    temp,         \* Path("tempdir") exists (the staging directory)
    cur,          \* the task that holds the event loop (0: the loop is idle)
    kind,         \* per task: "none" | "pull" | "setup" | "run"
    tpc,          \* per task: where the call stands
    resp,         \* per task: pull_kithare's response argument is not None
    recurse,      \* per task: run_kcr's recurse argument
    pending,      \* per task: what the try block of pull_kithare ended with
    result,       \* per task: how the call ended
    npull,        \* per task: pull_kithare calls made by the run_kcr call
    nexec,        \* per task: subprocess.run attempts of the run_kcr call
    nmiss,        \* per task: attempts that raised FileNotFoundError
    touched,      \* per task: pull_kithare did a fetch or filesystem step
    \* ---- paginated display controller ----
    scur,         \* the PagedEmbed task that holds the event loop (0: none)
    spc,          \* per session: where PagedEmbed.mainloop stands
    smsg,         \* per session: self.message.id
    npages,       \* per session: len(self.pages)
    current_page, \* per session: self.current_page
    is_on_info,   \* per session: self.is_on_info
    killed,       \* per session: self.killed
    caller,       \* per session: self.caller ({}: None or empty)
    command,      \* per session: self.parent_command, as a sequence of words
    ev,           \* per session: the event wait_for returned last
    todo,         \* per session: the branches of handle_reaction still to run
    out,          \* per session: the embed of the message.edit in flight
    lastcheck,    \* per session: how the last self.check(event) ended
    unhandled,    \* per session: accepted control events dispatched to the live
                  \* session and not passed to handle_reaction
    waited,       \* per session: time spent in the current wait_for
    idle,         \* per session: time waited since the controls were attached or
                  \* a control event for the session was last dispatched
    shown,        \* per message: the embed the message displays
    controls,     \* per message: the control reactions attached by the bot
    refreshed,    \* the last kh!refresh: the footer it read and how it ended
    \* ---- command dispatcher ----
    admin_cmds,   \* per registered admin command: the keys of its handlers
    user_cmds,    \* per registered user command: the keys of its handlers
    hpc,          \* where the call of handle stands
    args,         \* cmd_str.split() of the call
    is_admin,     \* the invoker holds a role of common.ADMIN_ROLES
    invoked,      \* the handlers the call invoked
    edits,        \* the titles the call passed to util.edit_embed
    logs,         \* the util.log calls of the call
    stop,         \* the last call of cmd_stop: its argument and how far it got
    \* ---- dispatcher of kithscord/commands ----
    roles,        \* the member's roles, in the primary and in another guild
    origin,       \* where the message of the call was written
    guild,        \* common.guild is not None
    npc,          \* where the call of handle stands
    request,      \* the command name of the call
    perms,        \* get_perms of the call: its set roles and its result
    ran,          \* how handle_cmd ended, call after call
    \* ---- kh!help ----
    groups,       \* the groups mapping: per group the list of its handlers
    helped,       \* per help request: the pages of its last answer
    \* ---- kh!pull kithscord ----
    local_test,   \* common.LOCAL_TEST
    gpc,          \* where the call of cmd_pull or cmd_pull_kithscord stands
    gran,         \* the git commands the call has run, and how each ended
    gshow,        \* the show_log argument of the call
    gout,         \* the calls that ended: what they ran and how they ended
    \* ---- command log ----
    cmd_logs,     \* common.cmd_logs, in the order of the dict
    ninserted,    \* the number of insertions into cmd_logs so far
    sent,         \* the response messages sent by handle
    mpc,          \* per posted message: where its handle_message stands
    deleted,      \* the messages reported to message_delete
    etask,        \* the message_edit task that awaits handle, if any
    edited        \* the message_edit calls: their message and what they did

pullvars == <<is_pulling, installed, temp, cur, kind, tpc, resp, recurse,
              pending, result, npull, nexec, nmiss, touched>>

sessvars == <<scur, spc, smsg, npages, current_page, is_on_info, killed, caller,
              command, ev, todo, out, lastcheck, unhandled, waited, idle,
              shown, controls, refreshed>>

handlevars == <<admin_cmds, user_cmds, hpc, args, is_admin, invoked, edits,
                logs, stop>>

permvars == <<roles, origin, guild, npc, request, perms, ran>>

helpvars == <<groups, helped>>

gitvars == <<local_test, gpc, gran, gshow, gout>>

logvars == <<cmd_logs, ninserted, sent, mpc, deleted, etask, edited>>

vars == <<pullvars, sessvars, handlevars, permvars, helpvars, gitvars,
          logvars>>

(***************************************************************************)
(* pull_kithare: positions between the acquisition of the flag (line 126)  *)
(* and the end of the finally block (line 183).                            *)
(***************************************************************************)
PullSeq == {"replace1", "rmdist", "get", "read", "extract", "glob",
            "install", "replace2", "finally"}

\* the task is inside the pull sequence
InPull(t) == tpc[t] \in PullSeq

\* positions at which a task is suspended on an await
Suspended == {"replace1", "get", "read", "replace2", "poll"}

Results == {"none", "ok", "AlreadyPulling", "FetchFailed",
            "NoMatchingPackage", "ToolMissing", "Timeout", "Error", "skipped"}

PullInit ==
    /\ is_pulling = FALSE
    /\ installed \in BOOLEAN
    /\ temp = FALSE
    /\ cur = 0
    /\ kind = [t \in Tasks |-> "none"]
    /\ tpc = [t \in Tasks |-> "idle"]
    /\ resp = [t \in Tasks |-> FALSE]
    /\ recurse = [t \in Tasks |-> TRUE]
    /\ pending = [t \in Tasks |-> "none"]
    /\ result = [t \in Tasks |-> "none"]
    /\ npull = [t \in Tasks |-> 0]
    /\ nexec = [t \in Tasks |-> 0]
    /\ nmiss = [t \in Tasks |-> 0]
    /\ touched = [t \in Tasks |-> FALSE]

\* the call of task t ends (returns or raises) with result r
Finish(t, r) ==
    /\ tpc' = [tpc EXCEPT ![t] = "done"]
    /\ result' = [result EXCEPT ![t] = r]
    /\ cur' = 0

\* the try block is left with outcome p: control goes to the finally block
ToFinally(t, p) ==
    /\ tpc' = [tpc EXCEPT ![t] = "finally"]
    /\ pending' = [pending EXCEPT ![t] = p]
    /\ cur' = t

\* AdminCommand.cmd_pull_kithare: pull_kithare(self.response_msg, branch)
CmdPullKithare(t) ==
    /\ UNCHANGED <<sessvars, handlevars, helpvars, gitvars, logvars, permvars>>
    /\ cur = 0 /\ tpc[t] = "idle"
    /\ kind' = [kind EXCEPT ![t] = "pull"]
    /\ resp' = [resp EXCEPT ![t] = TRUE]
    /\ tpc' = [tpc EXCEPT ![t] = "enter"]
    /\ cur' = t
    /\ UNCHANGED <<is_pulling, installed, temp, recurse, pending, result,
                   npull, nexec, nmiss, touched>>

\* setup_kcr: pulls (without a response message) if the binary is missing
\* and no pull is running
SetupKcr(t) ==
    /\ UNCHANGED <<sessvars, handlevars, helpvars, gitvars, logvars, permvars>>
    /\ cur = 0 /\ tpc[t] = "idle"
    /\ kind' = [kind EXCEPT ![t] = "setup"]
    /\ IF ~installed /\ ~is_pulling
         THEN /\ tpc' = [tpc EXCEPT ![t] = "enter"]
              /\ cur' = t
              /\ UNCHANGED result
         ELSE Finish(t, "skipped")
    /\ UNCHANGED <<is_pulling, installed, temp, resp, recurse, pending,
                   npull, nexec, nmiss, touched>>

\* the flag test at the head of pull_kithare: TRUE when the call is refused
PullRefused == is_pulling

\* a pull_kithare that tests the flag inside its try block, so that the
\* finally block also runs for a refused call
PullEnterInsideTry(t) ==
    /\ UNCHANGED <<sessvars, handlevars, helpvars, gitvars, logvars, permvars>>
    /\ cur = t /\ tpc[t] = "enter"
    /\ IF PullRefused
         THEN /\ ToFinally(t, "AlreadyPulling")
              /\ UNCHANGED <<is_pulling, result>>
         ELSE /\ is_pulling' = TRUE
              /\ tpc' = [tpc EXCEPT ![t] = IF resp[t] THEN "replace1" ELSE "rmdist"]
              /\ cur' = IF resp[t] THEN 0 ELSE t
              /\ UNCHANGED <<result, pending>>
    /\ UNCHANGED <<installed, temp, kind, resp, recurse,
                   npull, nexec, nmiss, touched>>

\* pull_kithare, lines 117-134: refuse when a pull is running, else take the
\* flag and (with a response message) await the "Pulling Kithare" edit
PullEnter(t) ==
    /\ UNCHANGED <<sessvars, handlevars, helpvars, gitvars, logvars, permvars>>
    /\ cur = t /\ tpc[t] = "enter"
    /\ IF PullRefused
         THEN /\ Finish(t, "AlreadyPulling")
              /\ UNCHANGED is_pulling
         ELSE /\ is_pulling' = TRUE
              /\ tpc' = [tpc EXCEPT ![t] = IF resp[t] THEN "replace1" ELSE "rmdist"]
              /\ cur' = IF resp[t] THEN 0 ELSE t
              /\ UNCHANGED result
    /\ UNCHANGED <<installed, temp, kind, resp, recurse, pending,
                   npull, nexec, nmiss, touched>>

\* the first embed_utils.replace returns (ok) or raises
PullReplace1Done(t) ==
    /\ UNCHANGED <<sessvars, handlevars, helpvars, gitvars, logvars, permvars>>
    /\ cur = 0 /\ tpc[t] = "replace1"
    /\ \E ok \in BOOLEAN :
         IF ok THEN /\ tpc' = [tpc EXCEPT ![t] = "rmdist"]
                    /\ cur' = t
                    /\ UNCHANGED pending
               ELSE ToFinally(t, "Error")
    /\ UNCHANGED <<is_pulling, installed, temp, kind, resp, recurse, result,
                   npull, nexec, nmiss, touched>>

\* line 136, rmtree(dist.parents[1]): the old installation is removed; the
\* removal may raise part way (OSError), then session.get is awaited
PullRmDist(t) ==
    /\ UNCHANGED <<sessvars, handlevars, helpvars, gitvars, logvars, permvars>>
    /\ cur = t /\ tpc[t] = "rmdist"
    /\ touched' = [touched EXCEPT ![t] = TRUE]
    /\ \E ok \in BOOLEAN :
         IF ok THEN /\ installed' = FALSE
                    /\ tpc' = [tpc EXCEPT ![t] = "get"]
                    /\ cur' = 0
                    /\ UNCHANGED pending
               ELSE /\ installed' \in {installed, FALSE}
                    /\ ToFinally(t, "Error")
    /\ UNCHANGED <<is_pulling, temp, kind, resp, recurse, result,
                   npull, nexec, nmiss>>

\* lines 146-152: session.get returns an archive, another content type
\* (FetchFailed) or raises; with an archive linkobj.read() is awaited
PullGetDone(t) ==
    /\ UNCHANGED <<sessvars, handlevars, helpvars, gitvars, logvars, permvars>>
    /\ cur = 0 /\ tpc[t] = "get"
    /\ touched' = [touched EXCEPT ![t] = TRUE]
    /\ \E r \in {"zip", "other", "error"} :
         CASE r = "zip" -> /\ tpc' = [tpc EXCEPT ![t] = "read"]
                           /\ cur' = 0
                           /\ UNCHANGED pending
           [] r = "other" -> ToFinally(t, "FetchFailed")
           [] r = "error" -> ToFinally(t, "Error")
    /\ UNCHANGED <<is_pulling, installed, temp, kind, resp, recurse, result,
                   npull, nexec, nmiss>>

\* line 154: linkobj.read() returns or raises
PullReadDone(t) ==
    /\ UNCHANGED <<sessvars, handlevars, helpvars, gitvars, logvars, permvars>>
    /\ cur = 0 /\ tpc[t] = "read"
    /\ \E ok \in BOOLEAN :
         IF ok THEN /\ tpc' = [tpc EXCEPT ![t] = "extract"]
                    /\ cur' = t
                    /\ UNCHANGED pending
               ELSE ToFinally(t, "Error")
    /\ UNCHANGED <<is_pulling, installed, temp, kind, resp, recurse, result,
                   npull, nexec, nmiss, touched>>

\* line 155: zipped.extractall(temp) creates the staging directory
PullExtract(t) ==
    /\ UNCHANGED <<sessvars, handlevars, helpvars, gitvars, logvars, permvars>>
    /\ cur = t /\ tpc[t] = "extract"
    /\ touched' = [touched EXCEPT ![t] = TRUE]
    /\ \E ok \in BOOLEAN :
         IF ok THEN /\ temp' = TRUE
                    /\ tpc' = [tpc EXCEPT ![t] = "glob"]
                    /\ UNCHANGED <<pending, cur>>
               ELSE /\ temp' \in BOOLEAN
                    /\ ToFinally(t, "Error")
    /\ UNCHANGED <<is_pulling, installed, kind, resp, recurse, result,
                   npull, nexec, nmiss>>

\* lines 157-164: the first installer that matches the machine, or
\* NoMatchingPackage
PullGlob(t) ==
    /\ UNCHANGED <<sessvars, handlevars, helpvars, gitvars, logvars, permvars>>
    /\ cur = t /\ tpc[t] = "glob"
    /\ \E found \in BOOLEAN :
         IF found THEN /\ tpc' = [tpc EXCEPT ![t] = "install"]
                       /\ UNCHANGED <<pending, cur>>
                  ELSE ToFinally(t, "NoMatchingPackage")
    /\ UNCHANGED <<is_pulling, installed, temp, kind, resp, recurse, result,
                   npull, nexec, nmiss, touched>>

\* lines 166-179: the installer is extracted over the destination (the
\* archive holds the binary or not), permissions are fixed, and with a
\* response message the "succeeded" edit is awaited
PullInstall(t) ==
    /\ UNCHANGED <<sessvars, handlevars, helpvars, gitvars, logvars, permvars>>
    /\ cur = t /\ tpc[t] = "install"
    /\ touched' = [touched EXCEPT ![t] = TRUE]
    /\ \E ok \in BOOLEAN, bin \in BOOLEAN :
         /\ installed' = bin
         /\ IF ~ok THEN ToFinally(t, "Error")
            ELSE IF resp[t]
                   THEN /\ tpc' = [tpc EXCEPT ![t] = "replace2"]
                        /\ cur' = 0
                        /\ UNCHANGED pending
                   ELSE ToFinally(t, "ok")
    /\ UNCHANGED <<is_pulling, temp, kind, resp, recurse, result,
                   npull, nexec, nmiss>>

\* the second embed_utils.replace returns or raises
PullReplace2Done(t) ==
    /\ UNCHANGED <<sessvars, handlevars, helpvars, gitvars, logvars, permvars>>
    /\ cur = 0 /\ tpc[t] = "replace2"
    /\ \E ok \in BOOLEAN :
         ToFinally(t, IF ok THEN "ok" ELSE "Error")
    /\ UNCHANGED <<is_pulling, installed, temp, kind, resp, recurse, result,
                   npull, nexec, nmiss, touched>>

\* run_kcr calling itself with the default recurse=True
RetryRecurseDefault == TRUE

\* the recurse argument of the call run_kcr makes to itself (line 220)
RetryRecurse == FALSE

\* the finally block, lines 181-183: rmtree(temp), then is_pulling = False.
\* rmtree of an existing staging directory may raise, and then the
\* assignment after it is not executed.  A pull made by run_kcr that
\* returned normally is followed at once by run_kcr(recurse=False).
PullFinally(t) ==
    /\ UNCHANGED <<sessvars, handlevars, helpvars, gitvars, logvars, permvars>>
    /\ cur = t /\ tpc[t] = "finally"
    /\ \E ok \in {TRUE} \cup {b \in {FALSE} : temp} :
         IF ~ok
           THEN /\ Finish(t, "Error")
                /\ UNCHANGED <<is_pulling, temp, recurse, touched>>
           ELSE /\ temp' = FALSE
                /\ touched' = [touched EXCEPT ![t] = touched[t] \/ temp]
                /\ is_pulling' = FALSE
                /\ IF pending[t] = "ok" /\ kind[t] = "run"
                     THEN /\ recurse' = [recurse EXCEPT ![t] = RetryRecurse]
                          /\ tpc' = [tpc EXCEPT ![t] = "poll"]
                          /\ UNCHANGED <<result, cur>>
                     ELSE /\ Finish(t, pending[t])
                          /\ UNCHANGED recurse
    /\ UNCHANGED <<installed, kind, resp, pending, npull, nexec, nmiss>>

\* a command calls run_kcr(...) (recurse defaults to True)
RunKcr(t) ==
    /\ UNCHANGED <<sessvars, handlevars, helpvars, gitvars, logvars, permvars>>
    /\ cur = 0 /\ tpc[t] = "idle"
    /\ kind' = [kind EXCEPT ![t] = "run"]
    /\ tpc' = [tpc EXCEPT ![t] = "poll"]
    /\ cur' = t
    /\ UNCHANGED <<is_pulling, installed, temp, resp, recurse, pending,
                   result, npull, nexec, nmiss, touched>>

\* a run_kcr that gives the event loop away between the test of the flag
\* and subprocess.run
RunPollYields(t) ==
    /\ UNCHANGED <<sessvars, handlevars, helpvars, gitvars, logvars, permvars>>
    /\ tpc[t] \in {"poll", "yield"}
    /\ \/ cur = t
       \/ cur = 0 /\ (tpc[t] = "yield" \/ ~is_pulling)
    /\ IF tpc[t] = "yield"
         THEN /\ cur' = t
              /\ tpc' = [tpc EXCEPT ![t] = "exec"]
         ELSE /\ cur' = 0
              /\ tpc' = [tpc EXCEPT ![t] =
                             IF is_pulling THEN "poll" ELSE "yield"]
    /\ UNCHANGED <<is_pulling, installed, temp, kind, resp, recurse, pending,
                   result, npull, nexec, nmiss, touched>>

\* a run_kcr without the polling loop: it executes the tool at once
RunPollNoWait(t) ==
    /\ UNCHANGED <<sessvars, handlevars, helpvars, gitvars, logvars, permvars>>
    /\ tpc[t] = "poll"
    /\ cur = t
    /\ tpc' = [tpc EXCEPT ![t] = "exec"]
    /\ UNCHANGED <<is_pulling, installed, temp, cur, kind, resp, recurse,
                   pending, result, npull, nexec, nmiss, touched>>

\* lines 198-199: while is_pulling: await asyncio.sleep(0.1)
RunPoll(t) ==
    /\ UNCHANGED <<sessvars, handlevars, helpvars, gitvars, logvars, permvars>>
    /\ tpc[t] = "poll"
    /\ \/ cur = t
       \/ cur = 0 /\ ~is_pulling
    /\ IF is_pulling
         THEN /\ cur' = 0
              /\ UNCHANGED tpc
         ELSE /\ cur' = t
              /\ tpc' = [tpc EXCEPT ![t] = "exec"]
    /\ UNCHANGED <<is_pulling, installed, temp, kind, resp, recurse, pending,
                   result, npull, nexec, nmiss, touched>>

\* a run_kcr that treats a timeout like a missing binary
RunExecRetriesTimeout(t) ==
    /\ UNCHANGED <<sessvars, handlevars, helpvars, gitvars, logvars, permvars>>
    /\ cur = t /\ tpc[t] = "exec"
    /\ nexec' = [nexec EXCEPT ![t] = @ + 1]
    /\ \E timeout \in BOOLEAN :
         IF installed /\ ~timeout
           THEN /\ Finish(t, "ok")
                /\ UNCHANGED <<nmiss, npull, resp>>
           ELSE /\ nmiss' = [nmiss EXCEPT ![t] = @ + 1]
                /\ IF ~recurse[t]
                     THEN /\ Finish(t, IF installed THEN "Timeout"
                                       ELSE "ToolMissing")
                          /\ UNCHANGED <<npull, resp>>
                     ELSE /\ npull' = [npull EXCEPT ![t] = @ + 1]
                          /\ resp' = [resp EXCEPT ![t] = FALSE]
                          /\ tpc' = [tpc EXCEPT ![t] = "enter"]
                          /\ UNCHANGED <<result, cur>>
    /\ UNCHANGED <<is_pulling, installed, temp, kind, recurse, pending, touched>>

\* lines 201-220: subprocess.run; FileNotFoundError when the binary is
\* missing, and then ToolMissing when recurse is False, else pull_kithare()
RunExec(t) ==
    /\ UNCHANGED <<sessvars, handlevars, helpvars, gitvars, logvars, permvars>>
    /\ cur = t /\ tpc[t] = "exec"
    /\ nexec' = [nexec EXCEPT ![t] = @ + 1]
    /\ IF installed
         THEN /\ \E timeout \in BOOLEAN :
                   Finish(t, IF timeout THEN "Timeout" ELSE "ok")
              /\ UNCHANGED <<nmiss, npull, resp>>
         ELSE /\ nmiss' = [nmiss EXCEPT ![t] = @ + 1]
              /\ IF ~recurse[t]
                   THEN /\ Finish(t, "ToolMissing")
                        /\ UNCHANGED <<npull, resp>>
                   ELSE /\ npull' = [npull EXCEPT ![t] = @ + 1]
                        /\ resp' = [resp EXCEPT ![t] = FALSE]
                        /\ tpc' = [tpc EXCEPT ![t] = "enter"]
                        /\ UNCHANGED <<result, cur>>
    /\ UNCHANGED <<is_pulling, installed, temp, kind, recurse, pending, touched>>

(***************************************************************************)
(* The paginated display controller: class PagedEmbed of                   *)
(* kithscord/utils/embed_utils.py, with the commands that create sessions. *)
(***************************************************************************)
\* PagedEmbed objects that can exist
MaxSess == 2
\* the longest page list a command produces
MaxPages == 3
\* control events counted per session
MaxEvents == 2
\* messages of the channel
NumMsgs == 2
\* the longest page list followed in navigation
LongPages == 25

Sess == 1..MaxSess
Msgs == 1..NumMsgs

\* common.bot.wait_for("raw_reaction_add", timeout=60)
Timeout == 60
\* the clock advances in halves of the wait window, and is followed for a
\* window and a half
TickStep == Timeout \div 2
IdleCap == Timeout + TickStep

\* guild members: alice and bob hold no admin role, mod holds a role of
\* common.ADMIN_ROLES, bot is a bot account
People == {"alice", "bob", "mod"}
Members == People \cup {"bot"}
\* event.member is None
NoMember == "none"
IsBot(m) == m = "bot"
IsAdmin(m) == m = "mod"

\* the emoji of each control (self.control_emojis, lines 211-222): "<<" is
\* the rewind emoji, "<" the previous-page emoji, "[]" the stop emoji, "i" the
\* info emoji, ">" the next-page emoji and ">>" the fast-forward emoji
Glyph == [first |-> "<<", prev |-> "<", stop |-> "[]", info |-> "i",
          next |-> ">", last |-> ">>"]
ControlKeys == {"first", "prev", "stop", "info", "next", "last"}
\* str(event.emoji): a control emoji or any other emoji
Emojis == {Glyph[k] : k \in ControlKeys} \cup {"other"}

\* control emojis that do not depend on the number of pages
ControlEmojiAll(n, key) == Glyph[key]

\* self.control_emojis[key][0] of a session with n pages: first and last
\* stay "" below three pages
ControlEmoji(n, key) ==
    IF key \in {"first", "last"} /\ n < 3 THEN "" ELSE Glyph[key]

\* the reactions add_control_emojis attaches (lines 236-240)
AttachedKeys(n) == {k \in ControlKeys : ControlEmoji(n, k) # ""}

\* handle_reaction without its stop branch
HandleOrderNoStop == <<"next", "prev", "first", "last", "info">>

\* the controls self.help_text lists (lines 231-234)
LegendKeys(n) == {k \in ControlKeys : ControlEmoji(n, k) # ""}

\* the tests of handle_reaction in the order they are made (lines 244-260)
HandleOrder == <<"next", "prev", "first", "last", "stop", "info">>

\* the branches of handle_reaction a reaction runs, in order
Triggered(reaction, n) ==
    SelectSeq(HandleOrder, LAMBDA k : reaction = ControlEmoji(n, k))

\* a Python list of length n accepts the index i
PyIndexOK(i, n) == 0 - n <= i /\ i < n
\* the position a valid Python index denotes
PyIndex(i, n) == IF i < 0 THEN i + n ELSE i

\* set_page with clamping instead of wraparound
SetPageClamped(num, n) ==
    IF num < 0 THEN 0 ELSE IF num >= n THEN n - 1 ELSE num

\* set_page, line 277: num % len(self.pages)
SetPageIndex(num, n) == num % n

\* a last branch that asks for the page after the last one
TargetPastEnd(key, cp, n) ==
    CASE key = "next" -> cp + 1
      [] key = "prev" -> cp - 1
      [] key = "first" -> 0
      [] key = "last" -> n

\* the page set_page is asked for by a navigation branch (lines 244-254)
Target(key, cp, n) ==
    CASE key = "next" -> cp + 1
      [] key = "prev" -> cp - 1
      [] key = "first" -> 0
      [] key = "last" -> n - 1

\* current_page after the navigation branch of key has run from page cp of
\* n pages (lines 244-254 and 277)
NavResult(key, cp, n) == SetPageIndex(Target(key, cp, n), n)

\* check that admits the listed members only
AcceptsListed(c, m) == c # {} /\ m \in c

\* the check of PagedEmbed.check after the reaction was removed (lines
\* 330-337): with a caller list, a listed member or an admin role
Accepts(c, m) == c # {} /\ (m \in c \/ IsAdmin(m))

NoEvent == [msg |-> 0, member |-> NoMember, emoji |-> ""]
Events == [msg : Msgs, member : Members \cup {NoMember}, emoji : Emojis]
\* the control events of the caller on the first message
NavEvents == [msg : {1}, member : {"alice"}, emoji : {Glyph[k] : k \in ControlKeys}]
\* the events followed where sessions run side by side
RefreshEvents == [msg : {1}, member : {"alice"}, emoji : {Glyph.next, Glyph.stop}]

\* embeds: kind, the page of self.pages shown, and the footer (the page
\* number and total of its first line; lines = 0: no footer, 1: the page line
\* only, 3: with the refresh hint and the "Command: " line)
\* The third line is kept as the sequence of its words, the marker
\* "Command: " being one of them.
NoEmbed == [kind |-> "none", idx |-> 0, num |-> 0, total |-> 0, lines |-> 0,
            third |-> <<>>]
ErrorEmbed == [kind |-> "error", idx |-> 0, num |-> 0, total |-> 0, lines |-> 0,
               third |-> <<>>]
RawPage == [kind |-> "page", idx |-> 0, num |-> 0, total |-> 0, lines |-> 0,
            third |-> <<>>]

\* command strings: no command (None, or the empty string, which line 308
\* treats alike) and the strings the commands pass to PagedEmbed
NoCommand == <<>>
Marker == "Command: "
HelpCommand == <<"help">>
ListCommand == <<"translate", "list">>

\* get_footer_text (lines 304-312)
FooterLines(cmd) == IF cmd # NoCommand THEN 3 ELSE 1
\* the third line of the footer (line 310): f"Command: {self.parent_command}"
FooterThird(cmd) == IF cmd # NoCommand THEN <<Marker>> \o cmd ELSE <<>>
FooterNum(page_num) == page_num + 1

\* self.pages[i] of session s after _setup wrote the footers (lines 294-297)
PageEmbed(s, i) ==
    [kind |-> "page", idx |-> PyIndex(i, npages[s]),
     num |-> FooterNum(PyIndex(i, npages[s])), total |-> npages[s],
     lines |-> FooterLines(command[s]), third |-> FooterThird(command[s])]

\* show_info_page that edits the current page in instead of the legend
InfoEmbedAsPage(s, cp) == PageEmbed(s, cp)

\* the info page of show_info_page (lines 266-269) for current page cp
InfoEmbed(s, cp) ==
    [kind |-> "info", idx |-> 0, num |-> FooterNum(cp), total |-> npages[s],
     lines |-> FooterLines(command[s]), third |-> FooterThird(command[s])]

\* positions of mainloop inside the while loop (lines 344-352)
LoopStates == {"wait", "got", "removing", "handle", "editing"}
\* the session consumes reaction events
Consuming(s) == spc[s] \in LoopStates
\* the session is ACTIVE or INFO_OVERLAY
Live(s) == Consuming(s) /\ ~killed[s]

\* cmd_refresh, line 130: data[2].startswith("Command: ")
HasMarker(third) == third # <<>> /\ Head(third) = Marker

\* cmd_refresh, line 138: data[2].replace("Command: ", "") removes every
\* occurrence of the marker
RefreshCommand(third) == SelectSeq(third, LAMBDA w : w # Marker)

\* cmd_refresh, lines 133-151: the first run of digits of the first line
\* (a sign is not part of it), minus one
RefreshPage(num) == (IF num < 0 THEN 0 - num ELSE num) - 1

\* how cmd_refresh ends on a message that displays embed e (lines 121-141):
\* "NotPaged" is the 'Message does not support pages' BotException,
\* "IndexError" the exception of data[2] on a footer of fewer than three
\* lines, "dispatched" the deletion of the response and the re-dispatch
RefreshOutcome(e) ==
    IF e.kind = "none" \/ e.lines = 0 THEN "NotPaged"
    ELSE IF e.lines # 3 /\ e.lines < 3 THEN "IndexError"
    ELSE IF e.lines # 3 /\ ~HasMarker(e.third) THEN "NotPaged"
    ELSE IF RefreshCommand(e.third) = <<>> THEN "NotPaged"
    ELSE "dispatched"

NoRefresh == [outcome |-> "none", lines |-> 0, marker |-> FALSE, deleted |-> FALSE]

\* the record of a kh!refresh on embed e
RefreshRecord(e) ==
    [outcome |-> RefreshOutcome(e), lines |-> e.lines,
     marker |-> HasMarker(e.third),
     deleted |-> RefreshOutcome(e) = "dispatched"]

\* start pages a PagedEmbed is constructed with
StartPages == (0 - 1)..MaxPages

SessInit ==
    /\ scur = 0
    /\ spc = [s \in Sess |-> "none"]
    /\ smsg = [s \in Sess |-> 0]
    /\ npages = [s \in Sess |-> 0]
    /\ current_page = [s \in Sess |-> 0]
    /\ is_on_info = [s \in Sess |-> FALSE]
    /\ killed = [s \in Sess |-> FALSE]
    /\ caller = [s \in Sess |-> {}]
    /\ command = [s \in Sess |-> NoCommand]
    /\ ev = [s \in Sess |-> NoEvent]
    /\ todo = [s \in Sess |-> <<>>]
    /\ out = [s \in Sess |-> NoEmbed]
    /\ lastcheck = [s \in Sess |-> "none"]
    /\ unhandled = [s \in Sess |-> 0]
    /\ waited = [s \in Sess |-> 0]
    /\ idle = [s \in Sess |-> 0]
    /\ shown = [m \in Msgs |-> NoEmbed]
    /\ controls = [m \in Msgs |-> {}]
    /\ refreshed = NoRefresh

\* PagedEmbed.__init__ (lines 205-229) and the part of mainloop and _setup
\* that runs before the first await (lines 341, 281-299): session s on
\* message m with n pages
Construct(s, m, n, c, cmd, start) ==
    /\ UNCHANGED <<pullvars, handlevars, helpvars, gitvars, logvars, permvars>>
    /\ smsg' = [smsg EXCEPT ![s] = m]
    /\ npages' = [npages EXCEPT ![s] = n]
    /\ current_page' = [current_page EXCEPT ![s] = start]
    /\ is_on_info' = [is_on_info EXCEPT ![s] = FALSE]
    /\ killed' = [killed EXCEPT ![s] = FALSE]
    /\ caller' = [caller EXCEPT ![s] = c]
    /\ command' = [command EXCEPT ![s] = cmd]
    /\ IF n >= 2 /\ ~PyIndexOK(start, n)
         THEN /\ spc' = [spc EXCEPT ![s] = "raised"]
              /\ UNCHANGED out
         ELSE /\ spc' = [spc EXCEPT ![s] = "setup_edit"]
              /\ out' = [out EXCEPT ![s] =
                    IF n = 0 THEN ErrorEmbed
                    ELSE IF n = 1 THEN RawPage
                    ELSE [kind |-> "page", idx |-> PyIndex(start, n),
                          num |-> FooterNum(PyIndex(start, n)), total |-> n,
                          lines |-> FooterLines(cmd),
                          third |-> FooterThird(cmd)]]
    /\ scur' = 0
    /\ UNCHANGED <<ev, todo, lastcheck, unhandled, waited, idle,
                   shown, controls>>

\* the next unused session
Fresh(s) == spc[s] = "none" /\ \A r \in Sess : r < s => spc[r] # "none"

\* the message a command has just sent as its response: the first one that
\* no session works on
FreshMsg(m) ==
    /\ \A r \in Sess : spc[r] # "none" => smsg[r] # m
    /\ \A k \in Msgs : k < m => \E r \in Sess : spc[r] # "none" /\ smsg[r] = k

\* PagedEmbed(message, pages, caller, command, start_page).mainloop() with
\* any arguments the constructor takes
NewSession(s, m) ==
    /\ scur = 0 /\ Fresh(s) /\ FreshMsg(m)
    /\ UNCHANGED refreshed
    /\ \E n \in 0..MaxPages, c \in {{}, {"alice"}},
          cmd \in {NoCommand, HelpCommand},
          start \in StartPages :
         Construct(s, m, n, c, cmd, start)

\* a command of the bot builds a PagedEmbed on its response message for its
\* invoker and with its command string, starting at self.page, which is 0
\* unless kh!refresh set it (cmd_translate_list, user.py lines 397-403;
\* send_help_message, line 544)
CmdPaged(s, m) ==
    /\ scur = 0 /\ Fresh(s) /\ FreshMsg(m)
    /\ UNCHANGED refreshed
    /\ \E n \in 1..MaxPages :
         Construct(s, m, n, {"alice"}, ListCommand, 0)

\* a command whose output fills a long page list (cmd_translate_list makes
\* one page per 20 languages, user.py lines 378-403)
CmdLong(s, m) ==
    /\ scur = 0 /\ Fresh(s) /\ FreshMsg(m)
    /\ UNCHANGED refreshed
    /\ \E n \in {MaxPages, LongPages} :
         Construct(s, m, n, {"alice"}, ListCommand, 0)

\* cmd_refresh (lines 107-152) on a message whose footer passes its tests:
\* the response message is deleted (line 144), the page is the footer's
\* number minus one, and the command of the footer is run again for the
\* refreshing member and builds a PagedEmbed on that message
CmdRefresh(s, m) ==
    /\ scur = 0 /\ Fresh(s)
    /\ RefreshOutcome(shown[m]) = "dispatched"
    /\ refreshed' = RefreshRecord(shown[m])
    /\ \E n \in 1..MaxPages, author \in People :
         Construct(s, m, n, {author}, RefreshCommand(shown[m].third),
                   RefreshPage(shown[m].num))

\* cmd_refresh on a message it raises on (lines 121-141): nothing is
\* deleted and no command is run
CmdRefreshRaises(m) ==
    /\ scur = 0
    /\ RefreshOutcome(shown[m]) # "dispatched"
    /\ refreshed' = RefreshRecord(shown[m])
    /\ UNCHANGED <<pullvars, handlevars, helpvars, gitvars, logvars, permvars, scur, spc, smsg, npages,
                   current_page, is_on_info, killed, caller, command, ev, todo,
                   out, lastcheck, unhandled, waited, idle, shown, controls>>

\* _setup that goes on to the controls whatever the page list is
SetupResultTrue(n) == TRUE

\* _setup returns False after its edit for an empty list (line 288) or a
\* single page (line 292), and then mainloop returns at once (lines 341-342);
\* with more pages it goes on to add_control_emojis and returns True
SetupResult(n) == n >= 2

\* the message.edit (or replace) awaited by _setup returns or raises (lines
\* 282-299); with two or more pages add_control_emojis is awaited next
SetupEditDone(s) ==
    /\ UNCHANGED <<pullvars, handlevars, helpvars, gitvars, logvars, permvars, refreshed>>
    /\ scur = 0 /\ spc[s] = "setup_edit"
    /\ \E ok \in BOOLEAN :
         IF ok
           THEN /\ shown' = [shown EXCEPT ![smsg[s]] = out[s]]
                /\ spc' = [spc EXCEPT ![s] =
                      IF SetupResult(npages[s]) THEN "add_controls" ELSE "returned"]
           ELSE /\ spc' = [spc EXCEPT ![s] = "raised"]
                /\ UNCHANGED shown
    /\ UNCHANGED <<scur, smsg, npages, current_page, is_on_info, killed, caller,
                   command, ev, todo, out, lastcheck, unhandled, waited,
                   idle, controls>>

\* add_control_emojis returns (lines 236-240, 300-302) and the loop begins
\* its first wait_for (lines 344-346), or an add_reaction raises
AddControlsDone(s) ==
    /\ UNCHANGED <<pullvars, handlevars, helpvars, gitvars, logvars, permvars, refreshed>>
    /\ scur = 0 /\ spc[s] = "add_controls"
    /\ \E ok \in BOOLEAN :
         IF ok
           THEN /\ controls' = [controls EXCEPT ![smsg[s]] = @ \cup AttachedKeys(npages[s])]
                /\ spc' = [spc EXCEPT ![s] = "wait"]
           ELSE /\ controls' \in {[controls EXCEPT ![smsg[s]] = @ \cup K] :
                                     K \in {{}, {"prev"}}}
                /\ spc' = [spc EXCEPT ![s] = "raised"]
    /\ waited' = [waited EXCEPT ![s] = 0]
    /\ idle' = [idle EXCEPT ![s] = 0]
    /\ UNCHANGED <<scur, smsg, npages, current_page, is_on_info, killed, caller,
                   command, ev, todo, out, lastcheck, unhandled, shown>>

\* event e is a control event that check accepts for session s
Counts(s, e) ==
    /\ Live(s)
    /\ e.msg = smsg[s]
    /\ e.member \in Members /\ ~IsBot(e.member)
    /\ Accepts(caller[s], e.member)
    /\ Triggered(e.emoji, npages[s]) # <<>>

\* the sessions a dispatched raw_reaction_add event is delivered to: those
\* with a wait_for pending (line 346)
Listening(s) == spc[s] = "wait"

\* the gateway dispatches a raw_reaction_add event: every pending wait_for
\* returns it; a task that is not waiting never sees it
RawReactionAdd(e) ==
    /\ UNCHANGED <<pullvars, handlevars, helpvars, gitvars, logvars, permvars, refreshed>>
    /\ scur = 0
    /\ \E s \in Sess : Consuming(s)
    /\ \A s \in Sess : Counts(s, e) => unhandled[s] < MaxEvents
    /\ spc' = [s \in Sess |-> IF Listening(s) THEN "got" ELSE spc[s]]
    /\ ev' = [s \in Sess |-> IF Listening(s) THEN e ELSE ev[s]]
    /\ unhandled' = [s \in Sess |-> IF Counts(s, e) THEN unhandled[s] + 1 ELSE unhandled[s]]
    /\ idle' = [s \in Sess |-> IF Counts(s, e) THEN 0 ELSE idle[s]]
    /\ UNCHANGED <<scur, smsg, npages, current_page, is_on_info, killed, caller,
                   command, todo, out, lastcheck, waited, shown, controls>>

\* back to the head of the while loop with self.killed false: a new
\* wait_for with a new timeout (lines 344-346)
WaitAgain(s) ==
    /\ spc' = [spc EXCEPT ![s] = "wait"]
    /\ ev' = [ev EXCEPT ![s] = NoEvent]
    /\ waited' = [waited EXCEPT ![s] = 0]

\* a check that tests the member before the message
CheckVerdictMemberFirst(e, m) ==
    IF e.member = NoMember THEN "dm_error"
    ELSE IF e.msg # m THEN "other_msg"
    ELSE IF IsBot(e.member) THEN "bot"
    ELSE "remove"

\* the tests check makes on event e before it awaits remove_reaction, in
\* their order (lines 316-327), for a session on message m
CheckVerdict(e, m) ==
    IF e.msg # m THEN "other_msg"
    ELSE IF e.member = NoMember THEN "dm_error"
    ELSE IF IsBot(e.member) THEN "bot"
    ELSE "remove"

\* check, lines 316-329: another message or a bot: False; no member: the
\* BotException leaves mainloop; else remove_reaction is awaited
CheckEvent(s) ==
    /\ UNCHANGED <<pullvars, handlevars, helpvars, gitvars, logvars, permvars, refreshed>>
    /\ scur = 0 /\ spc[s] = "got"
    /\ LET v == CheckVerdict(ev[s], smsg[s])
       IN IF v = "other_msg"
            THEN /\ lastcheck' = [lastcheck EXCEPT ![s] = "other_msg"]
                 /\ WaitAgain(s)
            ELSE IF v = "dm_error"
            THEN /\ lastcheck' = [lastcheck EXCEPT ![s] = "dm_error"]
                 /\ spc' = [spc EXCEPT ![s] = "raised"]
                 /\ UNCHANGED <<ev, waited>>
            ELSE IF v = "bot"
            THEN /\ lastcheck' = [lastcheck EXCEPT ![s] = "bot"]
                 /\ WaitAgain(s)
            ELSE /\ spc' = [spc EXCEPT ![s] = "removing"]
                 /\ UNCHANGED <<lastcheck, ev, waited>>
    /\ UNCHANGED <<scur, smsg, npages, current_page, is_on_info, killed, caller,
                   command, todo, out, unhandled, idle, shown, controls>>

\* remove_reaction (line 329) raised, or it returned: then check, lines
\* 330-337, and for an accepted event the call of handle_reaction (line 349)
RemoveDone(s) ==
    /\ UNCHANGED <<pullvars, handlevars, helpvars, gitvars, logvars, permvars, refreshed>>
    /\ scur = 0 /\ spc[s] = "removing"
    /\ \E ok \in BOOLEAN :
       IF ~ok
         THEN /\ spc' = [spc EXCEPT ![s] = "raised"]
              /\ UNCHANGED <<lastcheck, todo, unhandled, scur, ev, waited>>
       ELSE IF Accepts(caller[s], ev[s].member)
         THEN /\ lastcheck' = [lastcheck EXCEPT ![s] = "accepted"]
              /\ spc' = [spc EXCEPT ![s] = "handle"]
              /\ todo' = [todo EXCEPT ![s] = Triggered(ev[s].emoji, npages[s])]
              /\ unhandled' = [unhandled EXCEPT ![s] =
                    IF Triggered(ev[s].emoji, npages[s]) # <<>> THEN @ - 1 ELSE @]
              /\ scur' = s
              /\ UNCHANGED <<ev, waited>>
         ELSE /\ lastcheck' = [lastcheck EXCEPT ![s] = "denied"]
              /\ WaitAgain(s)
              /\ UNCHANGED <<todo, unhandled, scur>>
    /\ UNCHANGED <<smsg, npages, current_page, is_on_info, killed, caller,
                   command, out, idle, shown, controls>>

\* handle_reaction (lines 242-260) runs its next matching branch up to the
\* await of message.edit; after the last one the loop tests self.killed and
\* awaits clear_reactions or the next event
Handle(s) ==
    /\ UNCHANGED <<pullvars, handlevars, helpvars, gitvars, logvars, permvars, refreshed>>
    /\ scur = s /\ spc[s] = "handle"
    /\ IF todo[s] = <<>>
         THEN /\ IF killed[s]
                   THEN /\ spc' = [spc EXCEPT ![s] = "clearing"]
                        /\ UNCHANGED waited
                   ELSE /\ spc' = [spc EXCEPT ![s] = "wait"]
                        /\ waited' = [waited EXCEPT ![s] = 0]
              /\ ev' = [ev EXCEPT ![s] = NoEvent]
              /\ scur' = 0
              /\ UNCHANGED <<todo, current_page, is_on_info, killed, out>>
         ELSE /\ todo' = [todo EXCEPT ![s] = Tail(@)]
              /\ UNCHANGED <<ev, waited>>
              /\ CASE Head(todo[s]) \in {"next", "prev", "first", "last"} ->
                        \* set_page (lines 274-278)
                        /\ is_on_info' = [is_on_info EXCEPT ![s] = FALSE]
                        /\ current_page' = [current_page EXCEPT ![s] =
                              SetPageIndex(Target(Head(todo[s]), @, npages[s]), npages[s])]
                        /\ out' = [out EXCEPT ![s] = PageEmbed(s, current_page'[s])]
                        /\ spc' = [spc EXCEPT ![s] = "editing"]
                        /\ scur' = 0
                        /\ UNCHANGED killed
                   [] Head(todo[s]) = "stop" ->
                        /\ killed' = [killed EXCEPT ![s] = TRUE]
                        /\ UNCHANGED <<is_on_info, current_page, out, spc, scur>>
                   [] Head(todo[s]) = "info" ->
                        \* show_info_page (lines 262-272)
                        /\ is_on_info' = [is_on_info EXCEPT ![s] = ~@]
                        /\ IF is_on_info[s] /\ ~PyIndexOK(current_page[s], npages[s])
                             THEN /\ spc' = [spc EXCEPT ![s] = "raised"]
                                  /\ UNCHANGED out
                             ELSE /\ spc' = [spc EXCEPT ![s] = "editing"]
                                  /\ out' = [out EXCEPT ![s] =
                                        IF ~is_on_info[s]
                                          THEN InfoEmbed(s, current_page[s])
                                          ELSE PageEmbed(s, current_page[s])]
                        /\ scur' = 0
                        /\ UNCHANGED <<current_page, killed>>
    /\ UNCHANGED <<smsg, npages, caller, command, lastcheck, unhandled,
                   idle, shown, controls>>

\* the message.edit of set_page or show_info_page returns (handle_reaction
\* goes on) or raises (the exception leaves mainloop)
EditDone(s) ==
    /\ UNCHANGED <<pullvars, handlevars, helpvars, gitvars, logvars, permvars, refreshed>>
    /\ scur = 0 /\ spc[s] = "editing"
    /\ \E ok \in BOOLEAN :
         IF ok
           THEN /\ shown' = [shown EXCEPT ![smsg[s]] = out[s]]
                /\ spc' = [spc EXCEPT ![s] = "handle"]
                /\ scur' = s
           ELSE /\ spc' = [spc EXCEPT ![s] = "raised"]
                /\ UNCHANGED <<shown, scur>>
    /\ UNCHANGED <<smsg, npages, current_page, is_on_info, killed, caller,
                   command, ev, todo, out, lastcheck, unhandled, waited,
                   idle, controls>>

\* asyncio.TimeoutError out of wait_for (lines 351-352): self.killed = True,
\* the loop ends and clear_reactions is awaited
WaitTimeout(s) ==
    /\ UNCHANGED <<pullvars, handlevars, helpvars, gitvars, logvars, permvars, refreshed>>
    /\ scur = 0 /\ spc[s] = "wait"
    /\ killed' = [killed EXCEPT ![s] = TRUE]
    /\ spc' = [spc EXCEPT ![s] = "clearing"]
    /\ UNCHANGED <<scur, smsg, npages, current_page, is_on_info, caller,
                   command, ev, todo, out, lastcheck, unhandled, waited,
                   idle, shown, controls>>

\* the timeout of a wait_for that has waited the whole window
TimedOut(s) == waited[s] >= Timeout /\ WaitTimeout(s)

\* message.clear_reactions returns or raises (line 354)
ClearDone(s) ==
    /\ UNCHANGED <<pullvars, handlevars, helpvars, gitvars, logvars, permvars, refreshed>>
    /\ scur = 0 /\ spc[s] = "clearing"
    /\ \E ok \in BOOLEAN :
         IF ok
           THEN /\ controls' = [controls EXCEPT ![smsg[s]] = {}]
                /\ spc' = [spc EXCEPT ![s] = "returned"]
           ELSE /\ spc' = [spc EXCEPT ![s] = "raised"]
                /\ UNCHANGED controls
    /\ UNCHANGED <<scur, smsg, npages, current_page, is_on_info, killed, caller,
                   command, ev, todo, out, lastcheck, unhandled, waited,
                   idle, shown>>

\* time passes for the pending wait_for calls; a wait_for whose timeout is
\* due raises before more time passes
Tick ==
    /\ UNCHANGED <<pullvars, handlevars, helpvars, gitvars, logvars, permvars, refreshed>>
    /\ scur = 0
    /\ \E s \in Sess : Listening(s)
    /\ \A s \in Sess : Listening(s) => waited[s] < Timeout
    /\ waited' = [s \in Sess |-> IF Listening(s) THEN waited[s] + TickStep ELSE waited[s]]
    /\ idle' = [s \in Sess |->
          IF Listening(s) /\ idle[s] + TickStep <= IdleCap
            THEN idle[s] + TickStep ELSE idle[s]]
    /\ UNCHANGED <<scur, spc, smsg, npages, current_page, is_on_info, killed,
                   caller, command, ev, todo, out, lastcheck, unhandled,
                   shown, controls>>

(***************************************************************************)
(* The command dispatcher: handle of Kithscord/commands.py.  A command     *)
(* string is followed as its split words, a registry as the set of        *)
(* argument counts each registered name has a handler for.                *)
(***************************************************************************)

\* the largest number of arguments followed
MaxArgs == 2

\* the key of the handler that takes any number of arguments
Variadic == -1

\* the value of leng when no handler fits
NoMatch == -2

Keys == {Variadic} \cup (0..MaxArgs)

\* the name the registries may hold, and a name they never hold
Registered == {"cmd"}

CallNames == Registered \cup {"other"}

\* a registry maps each of its names to the non-empty set of keys of the
\* name's handlers
Registries ==
    UNION {[D -> (SUBSET Keys) \ {{}}] : D \in SUBSET Registered}

\* cmd_str.split() of the command strings followed: none, or a name and
\* up to MaxArgs arguments
CallArgs ==
    {<<>>} \cup
    {<<n>> \o [i \in 1..k |-> "arg"] : n \in CallNames, k \in 0..MaxArgs}

Incorrect == "Incorrect amount of argument(s)!"

Unrecognized == "Unrecognized command!"

ExceptionOccured == "An exception occured while handling the command!"

\* common.ADMIN_ROLES
ADMIN_ROLES == {"admin"}

\* is_admin of handle: a role of the author is in common.ADMIN_ROLES
HasAdminRole(rs) == rs \cap ADMIN_ROLES # {}

\* arg_length = len(args) - 1
ArgLength(a) == Len(a) - 1

\* a selection that settles for the largest handler below the count
LengPartial(overloads, n) ==
    IF Variadic \in overloads THEN Variadic
    ELSE IF n \in overloads THEN n
    ELSE IF \E k \in overloads : k < n
      THEN CHOOSE k \in overloads :
               k < n /\ \A j \in overloads : j < n => j <= k
    ELSE NoMatch

\* leng = -1 if -1 in overloads else arg_length if arg_length in overloads
\*        else -2
Leng(overloads, n) ==
    IF Variadic \in overloads THEN Variadic
    ELSE IF n \in overloads THEN n
    ELSE NoMatch

\* handle without the early return for the empty string: args[0] raises
\* IndexError inside the try block
DecideNoEarlyReturn(adm, a, acmds, ucmds) ==
    IF ArgLength(a) = -1 THEN [do |-> "edit", title |-> ExceptionOccured]
    ELSE IF /\ adm
            /\ a[1] \in DOMAIN acmds
            /\ Leng(acmds[a[1]], ArgLength(a)) # NoMatch
      THEN [do |-> "invoke", table |-> "admin", name |-> a[1],
            leng |-> Leng(acmds[a[1]], ArgLength(a))]
    ELSE IF a[1] \in DOMAIN ucmds
      THEN IF Leng(ucmds[a[1]], ArgLength(a)) # NoMatch
             THEN [do |-> "invoke", table |-> "user", name |-> a[1],
                   leng |-> Leng(ucmds[a[1]], ArgLength(a))]
             ELSE [do |-> "edit", title |-> Incorrect]
    ELSE [do |-> "edit", title |-> Unrecognized]

\* what handle does up to its first await: "return" (empty string), the
\* invocation of a handler, or a failure display
Decide(adm, a, acmds, ucmds) ==
    IF ArgLength(a) = -1 THEN [do |-> "return"]
    ELSE IF /\ adm
            /\ a[1] \in DOMAIN acmds
            /\ Leng(acmds[a[1]], ArgLength(a)) # NoMatch
      THEN [do |-> "invoke", table |-> "admin", name |-> a[1],
            leng |-> Leng(acmds[a[1]], ArgLength(a))]
    ELSE IF a[1] \in DOMAIN ucmds
      THEN IF Leng(ucmds[a[1]], ArgLength(a)) # NoMatch
             THEN [do |-> "invoke", table |-> "user", name |-> a[1],
                   leng |-> Leng(ucmds[a[1]], ArgLength(a))]
             ELSE [do |-> "edit", title |-> Incorrect]
    ELSE [do |-> "edit", title |-> Unrecognized]

NoStop == [no_restart |-> FALSE, confirmed |-> FALSE, exited |-> FALSE,
           status |-> 0]

HandleInit ==
    /\ hpc = "idle"
    /\ stop = NoStop
    /\ args = <<>>
    /\ is_admin = FALSE
    /\ invoked = <<>>
    /\ edits = <<>>
    /\ logs = 0

\* handle is not followed: nothing is registered
NoRegistry ==
    /\ admin_cmds = <<>>
    /\ user_cmds = <<>>

Over(h) == h \in {"idle", "returned", "raised"}

\* handle(cmd_str, invoker_msg, response_msg) up to its first await
HandleCommand(adm, a) ==
    /\ Over(hpc)
    /\ args' = a
    /\ is_admin' = adm
    /\ logs' = 0
    /\ LET d == Decide(adm, a, admin_cmds, user_cmds) IN
         \/ /\ d.do = "return"
            /\ hpc' = "returned"
            /\ invoked' = <<>>
            /\ edits' = <<>>
         \/ /\ d.do = "invoke"
            /\ hpc' = "handler"
            /\ invoked' = <<[table |-> d.table, name |-> d.name,
                             leng |-> d.leng]>>
            /\ edits' = <<>>
         \/ /\ d.do = "edit"
            /\ hpc' = "edit"
            /\ invoked' = <<>>
            /\ edits' = <<d.title>>
    /\ UNCHANGED <<pullvars, sessvars, permvars, helpvars, gitvars, logvars, stop, admin_cmds, user_cmds>>

\* the handler returned: await util.log(log_msg)
HandlerReturns ==
    /\ hpc = "handler"
    /\ hpc' = "log"
    /\ logs' = logs + 1
    /\ UNCHANGED <<pullvars, sessvars, permvars, helpvars, gitvars, logvars, stop, admin_cmds, user_cmds, args, is_admin,
                   invoked, edits>>

\* a handle without the except clause: the Exception leaves handle
TryRaisesUncaught ==
    /\ hpc \in {"handler", "log", "edit"}
    /\ hpc' = "raised"
    /\ UNCHANGED <<pullvars, sessvars, permvars, helpvars, gitvars, logvars, stop, admin_cmds, user_cmds, args,
                   is_admin, invoked, edits, logs>>

\* the handler or util.log raised an Exception: the except clause edits
\* the response message
TryRaises ==
    /\ hpc \in {"handler", "log", "edit"}
    /\ hpc' = "except"
    /\ edits' = Append(edits, ExceptionOccured)
    /\ UNCHANGED <<pullvars, sessvars, permvars, helpvars, gitvars, logvars, stop, admin_cmds, user_cmds, args, is_admin,
                   invoked, logs>>

\* the handler raised SystemExit (sys.exit), which is no Exception
HandlerExits ==
    /\ hpc = "handler"
    /\ hpc' = "exited"
    /\ UNCHANGED <<pullvars, sessvars, permvars, helpvars, gitvars, logvars, stop, admin_cmds, user_cmds, args, is_admin,
                   invoked, edits, logs>>

\* util.log returned, or an edit_embed of handle returned: handle returns
AwaitReturns ==
    /\ hpc \in {"log", "edit", "except"}
    /\ hpc' = "returned"
    /\ UNCHANGED <<pullvars, sessvars, permvars, helpvars, gitvars, logvars, stop, admin_cmds, user_cmds, args, is_admin,
                   invoked, edits, logs>>

\* an exit that always reports status 0
ExitStatusZero(no_restart) == 0

\* sys.exit(int(no_restart))
ExitStatus(no_restart) == IF no_restart THEN 1 ELSE 0

\* the handler invoked is cmd_stop: it awaits the edit that shows its
\* confirmation on the response message
CmdStop(no_restart) ==
    /\ hpc = "handler"
    /\ hpc' = "stop"
    /\ stop' = [no_restart |-> no_restart, confirmed |-> FALSE,
                exited |-> FALSE, status |-> 0]
    /\ UNCHANGED <<pullvars, sessvars, permvars, helpvars, gitvars, logvars, admin_cmds, user_cmds, args,
                   is_admin, invoked, edits, logs>>

\* the edit of cmd_stop returned: sys.exit raises SystemExit, which the
\* except clause of handle does not catch
StopEditDone ==
    /\ hpc = "stop"
    /\ hpc' = "exited"
    /\ stop' = [stop EXCEPT !.confirmed = TRUE, !.exited = TRUE,
                            !.status = ExitStatus(stop.no_restart)]
    /\ UNCHANGED <<pullvars, sessvars, permvars, helpvars, gitvars, logvars, admin_cmds, user_cmds, args,
                   is_admin, invoked, edits, logs>>

\* the edit of cmd_stop raised: sys.exit is not reached, and the except
\* clause of handle edits the response message
StopEditRaises ==
    /\ hpc = "stop"
    /\ hpc' = "except"
    /\ edits' = Append(edits, ExceptionOccured)
    /\ UNCHANGED <<pullvars, sessvars, permvars, helpvars, gitvars, logvars, stop, admin_cmds, user_cmds,
                   args, is_admin, invoked, logs>>

\* the edit_embed of the except clause raised: handle raises
ExceptRaises ==
    /\ hpc = "except"
    /\ hpc' = "raised"
    /\ UNCHANGED <<pullvars, sessvars, permvars, helpvars, gitvars, logvars, stop, admin_cmds, user_cmds, args, is_admin,
                   invoked, edits, logs>>

(***************************************************************************)
(* The dispatcher of kithscord/commands: get_perms and handle, followed    *)
(* for the commands of one member whose roles change over time.            *)
(***************************************************************************)

\* the number of handle calls followed
MaxCalls == 2

\* common.EVAL_ROLE, the role of the elevated tier
EVAL_ROLE == "eval"

\* the roles of the primary guild, and those of another guild (role ids are
\* unique across guilds)
PrimaryRoles == {EVAL_ROLE, "admin", "helper"}

OtherRoles == {"guest"}

\* where the member writes from: the primary guild, another guild, or a
\* direct message (where the author is a discord.User)
Origins == {"primary", "other", "dm"}

\* the cmd_ methods of UserCommand, and those AdminCommand adds to them
UserMethods == {"help"}

AdminMethods == {"stop", "eval"}

Requests == UserMethods \cup AdminMethods \cup {"nope"}

NoPerms == [roles |-> {}, has_eval |-> FALSE, is_admin |-> FALSE,
            done |-> FALSE]

\* mem.roles: the roles of the author in the guild of the message
MemRoles(o) ==
    IF o = "primary" THEN roles.primary
    ELSE IF o = "other" THEN roles.other
    ELSE {}

\* the test before the fetch: common.guild is set and the author is a User
\* or a member of another guild
NeedsFetch(o) == guild /\ o # "primary"

\* the set roles of get_perms: the roles fetched from the primary guild,
\* when the fetch is made and finds the member, and mem.roles of a Member
PermRoles(o, found) ==
    (IF NeedsFetch(o) /\ found THEN roles.primary ELSE {}) \cup MemRoles(o)

\* a get_perms that grants the elevated tier without the admin tier
PermsOfEvalOnly(rs) ==
    [roles |-> rs,
     has_eval |-> EVAL_ROLE \in rs,
     is_admin |-> rs \cap ADMIN_ROLES # {},
     done |-> TRUE]

\* the (has_eval, is_admin) pair get_perms returns for the set roles
PermsOf(rs) ==
    [roles |-> rs,
     has_eval |-> EVAL_ROLE \in rs,
     is_admin |-> EVAL_ROLE \in rs \/ rs \cap ADMIN_ROLES # {},
     done |-> TRUE]

\* a handle that builds an AdminCommand for every author
CmdClassAdmin(p) == "AdminCommand"

\* the class of cmd
CmdClass(p) == IF p.is_admin THEN "AdminCommand" ELSE "UserCommand"

Methods(cls) ==
    IF cls = "AdminCommand" THEN UserMethods \cup AdminMethods
    ELSE UserMethods

\* a cmd_eval that runs the code whatever has_eval is
EvalOutcomeAlways(has_eval) == "evaluated"

\* cmd_eval: the code runs only with has_eval
EvalOutcome(has_eval) == IF has_eval THEN "evaluated" ELSE "denied"

\* common.admin_commands: the names of the cmd_ methods in dir(AdminCommand)
admin_commands == Methods("AdminCommand")

\* how handle_cmd ends for the request: the outcome of the method of that
\* name; without such a method of the class, the permission failure for a
\* name of common.admin_commands and the unknown command failure otherwise
Outcome(p, req) ==
    IF req \in Methods(CmdClass(p))
      THEN IF req = "eval" THEN EvalOutcome(p.has_eval) ELSE "ran"
    ELSE IF req \in admin_commands THEN "refused"
    ELSE "unknown"

PermsInit ==
    /\ roles = [primary |-> {}, other |-> {}]
    /\ origin = "primary"
    /\ guild = TRUE
    /\ npc = "absent"
    /\ request = "nope"
    /\ perms = NoPerms
    /\ ran = <<>>

\* handle(invoke_msg, response_msg) up to the call of get_perms
HandleEnter(req, o) ==
    /\ npc \in {"idle", "returned"}
    /\ Len(ran) < MaxCalls
    /\ guild \/ o # "primary"
    /\ request' = req
    /\ origin' = o
    /\ perms' = NoPerms
    /\ npc' = "get_perms"
    /\ UNCHANGED <<pullvars, sessvars, handlevars, helpvars, gitvars, logvars, roles, guild, ran>>

\* has_eval, is_admin = await get_perms(invoke_msg.author); found: the
\* fetch from the primary guild, when made, returns the member
GetPerms(found) ==
    /\ npc = "get_perms"
    /\ perms' = PermsOf(PermRoles(origin, found))
    /\ npc' = "handle_cmd"
    /\ UNCHANGED <<pullvars, sessvars, handlevars, helpvars, gitvars, logvars, roles, origin, guild,
                   request, ran>>

\* cmd = AdminCommand or UserCommand; cmd.has_eval = has_eval;
\* await cmd.handle_cmd(); return response_msg
HandleCmd ==
    /\ npc = "handle_cmd"
    /\ ran' = Append(ran, [cls |-> CmdClass(perms), name |-> request,
                           outcome |-> Outcome(perms, request)])
    /\ npc' = "returned"
    /\ UNCHANGED <<pullvars, sessvars, handlevars, helpvars, gitvars, logvars, roles, origin, guild,
                   request, perms>>

\* a role is given to the member or taken from them
RoleChange(g, r) ==
    /\ roles' = [roles EXCEPT ![g] =
                    IF r \in @ THEN @ \ {r} ELSE @ \cup {r}]
    /\ UNCHANGED <<pullvars, sessvars, handlevars, helpvars, gitvars, logvars, origin, guild, npc,
                   request, perms, ran>>

(***************************************************************************)
(* kh!help: cmd_help of UserCommand and send_help_message, up to the      *)
(* construction of the PagedEmbed that shows the pages.                    *)
(***************************************************************************)

\* the longest handler list of a group followed
MaxFuncs == 5

\* the message_edit calls followed
MaxEdits == 2

\* the message_delete calls followed
MaxDeletes == 2

\* the groups of UserCommand and their subcommands
SubCmds == [kcr |-> <<"version", "parse">>, translate |-> <<"list">>]

\* the commands that are no group
PlainCmds == {"help"}

\* the keys of cmds_and_funcs looked up by kh!help
CmdNames == PlainCmds \cup DOMAIN SubCmds

\* a handler, with the subcmds attribute add_group gave it (none: <<>>)
Func(name, subcmds) == [name |-> name, subcmds |-> subcmds]

\* the groups mapping as built from the handler definitions: per group the
\* handlers of its subcommands
BuiltGroups ==
    [g \in DOMAIN SubCmds |->
        [i \in 1..Len(SubCmds[g]) |-> Func(g, <<SubCmds[g][i]>>)]]

\* the names a member passes to kh!help
HelpNames ==
    {<<>>, <<"help">>, <<"nope">>, <<"kcr">>, <<"kcr", "version">>,
     <<"translate">>, <<"translate", "list">>}

\* the first pages of PagedEmbed for kh!help without names
GeneralHelp == <<Func("Help", <<>>)>>

\* seq[:k]
Prefix(seq, k) == SubSeq(seq, 1, IF k < Len(seq) THEN k ELSE Len(seq))

\* the handler is not skipped: no subcommand was named, or the names are the
\* start of the handler's subcmds
Listed(func, rest) ==
    ~(rest # <<>> /\ rest # Prefix(func.subcmds, Len(rest)))

\* funcs after funcs.insert(0, cmds_and_funcs[func_name])
HelpFuncs(names, grp) ==
    <<Func(names[1], <<>>)>>
        \o (IF names[1] \in DOMAIN grp THEN grp[names[1]] ELSE <<>>)

\* the groups mapping after the call: funcs is groups[func_name] itself,
\* not a copy, so the insert is made in the mapping's list
GroupsAfter(names, grp) ==
    IF names # <<>> /\ names[1] \in CmdNames /\ names[1] \in DOMAIN grp
      THEN [grp EXCEPT ![names[1]] = HelpFuncs(names, grp)]
      ELSE grp

\* embeds: one page per handler listed
HelpEmbeds(names, grp) ==
    IF names = <<>> THEN GeneralHelp
    ELSE IF names[1] \in CmdNames
      THEN SelectSeq(HelpFuncs(names, grp), LAMBDA f : Listed(f, Tail(names)))
    ELSE <<>>

NotAsked == [asked |-> FALSE, pages |-> <<>>]

HelpInit ==
    /\ groups = BuiltGroups
    /\ helped = [n \in HelpNames |-> NotAsked]

\* kh!help names
CmdHelp(names) ==
    /\ \A g \in DOMAIN groups : Len(GroupsAfter(names, groups)[g]) <= MaxFuncs
    /\ groups' = GroupsAfter(names, groups)
    /\ helped' = [helped EXCEPT ![names] =
                     [asked |-> TRUE, pages |-> HelpEmbeds(names, groups)]]
    /\ UNCHANGED <<pullvars, sessvars, handlevars, permvars, gitvars, logvars>>

(***************************************************************************)
(* kh!pull and kh!pull kithscord: cmd_pull and cmd_pull_kithscord of       *)
(* AdminCommand (kithscord/commands/admin.py), call after call.            *)
(***************************************************************************)

\* the git commands of cmd_pull_kithscord, in the order of its loop
GitSteps == <<"fetch", "checkout", "reset">>

\* how a subprocess.run of git ends: exit code zero, another exit code, or
\* an exception of subprocess.run itself
GitEnds == {"zero", "nonzero", "raises"}

GitInit ==
    /\ local_test = FALSE
    /\ gpc = "idle"
    /\ gran = <<>>
    /\ gshow = FALSE
    /\ gout = <<>>

\* the call ends (returns or raises) in the way how, having run steps
GitEnd(steps, how) ==
    /\ gpc' = "idle"
    /\ gout' = Append(gout, [steps |-> steps, how |-> how])

\* the head of cmd_pull_kithscord: blocked under LOCAL_TEST, else the loop
\* over the git commands begins
PullKithscordEnter(show_log) ==
    /\ gran' = <<>>
    /\ gshow' = show_log
    /\ IF local_test
         THEN GitEnd(<<>>, "blocked")
         ELSE /\ gpc' = "git"
              /\ UNCHANGED gout

\* kh!pull: cmd_pull awaits cmd_pull_kithare
CmdPull ==
    /\ gpc = "idle" /\ Len(gout) < MaxCalls
    /\ gpc' = "pull_kithare"
    /\ gran' = <<>>
    /\ gshow' = FALSE
    /\ UNCHANGED <<local_test, gout>>
    /\ UNCHANGED <<pullvars, sessvars, handlevars, permvars, helpvars, logvars>>

\* cmd_pull_kithare raised (cmd_pull ends), or it returned and cmd_pull
\* awaits cmd_pull_kithscord()
PullKithareDone(ok) ==
    /\ gpc = "pull_kithare"
    /\ IF ok THEN PullKithscordEnter(FALSE)
             ELSE /\ GitEnd(<<>>, "pull_raised")
                  /\ UNCHANGED <<gran, gshow>>
    /\ UNCHANGED local_test
    /\ UNCHANGED <<pullvars, sessvars, handlevars, permvars, helpvars, logvars>>

\* kh!pull kithscord [branch] [reset_flag] [show_log]
CmdPullKithscord(show_log) ==
    /\ gpc = "idle" /\ Len(gout) < MaxCalls
    /\ PullKithscordEnter(show_log)
    /\ UNCHANGED local_test
    /\ UNCHANGED <<pullvars, sessvars, handlevars, permvars, helpvars, logvars>>

\* a cmd_pull_kithscord that tests the exit codes after the loop
GitRunChecksLast(e) ==
    /\ gpc = "git"
    /\ gran' = Append(gran, [cmd |-> GitSteps[Len(gran) + 1], ends |-> e])
    /\ IF e = "raises"
         THEN GitEnd(gran', "raised")
       ELSE IF Len(gran') < Len(GitSteps)
         THEN UNCHANGED <<gpc, gout>>
       ELSE IF \E i \in 1..Len(gran') : gran'[i].ends = "nonzero"
         THEN GitEnd(gran', "failed")
       ELSE /\ gpc' = IF gshow THEN "reply" ELSE "stop"
            /\ UNCHANGED gout
    /\ UNCHANGED <<local_test, gshow>>
    /\ UNCHANGED <<pullvars, sessvars, handlevars, permvars, helpvars, logvars>>

\* one turn of the loop, lines 154-172: subprocess.run of the next git
\* command; a non-zero exit code raises 'Kithscord pull failed!'; after the
\* last command the reply with the log (show_log) or cmd_stop is awaited
GitRun(e) ==
    /\ gpc = "git"
    /\ gran' = Append(gran, [cmd |-> GitSteps[Len(gran) + 1], ends |-> e])
    /\ IF e = "raises"
         THEN GitEnd(gran', "raised")
       ELSE IF e = "nonzero"
         THEN GitEnd(gran', "failed")
       ELSE IF Len(gran') < Len(GitSteps)
         THEN UNCHANGED <<gpc, gout>>
       ELSE /\ gpc' = IF gshow THEN "reply" ELSE "stop"
            /\ UNCHANGED gout
    /\ UNCHANGED <<local_test, gshow>>
    /\ UNCHANGED <<pullvars, sessvars, handlevars, permvars, helpvars, logvars>>

\* invoke_msg.reply returned (cmd_stop is awaited) or raised
GitReplyDone(ok) ==
    /\ gpc = "reply"
    /\ IF ok THEN /\ gpc' = "stop"
                  /\ UNCHANGED gout
             ELSE GitEnd(gran, "raised")
    /\ UNCHANGED <<local_test, gran, gshow>>
    /\ UNCHANGED <<pullvars, sessvars, handlevars, permvars, helpvars, logvars>>

\* await self.cmd_stop(): its edit returned and sys.exit(int(False)) ends
\* the process for a restart, or its edit raised
GitStopDone(ok) ==
    /\ gpc = "stop"
    /\ IF ok THEN /\ gpc' = "exited"
                  /\ gout' = Append(gout, [steps |-> gran, how |-> "exited"])
             ELSE GitEnd(gran, "raised")
    /\ UNCHANGED <<local_test, gran, gshow>>
    /\ UNCHANGED <<pullvars, sessvars, handlevars, permvars, helpvars, logvars>>

(***************************************************************************)
(* common.cmd_logs and the tasks that read and write it: handle_message,   *)
(* message_edit and message_delete of kithscord/__init__.py.               *)
(***************************************************************************)

\* the size of cmd_logs above which handle_message evicts an entry
LogCap == 100

\* the messages posted while the model runs
NewMsgs == {LogCap, LogCap + 1}

\* the response message embed_utils.send creates for invoking message m
Resp(m) == m + 1000

\* cmd_logs after k commands were handled one after another: the dict in
\* the order of its insertions (at: the rank of the insertion)
Handled(k) == [i \in 1..k |-> [id |-> i, resp |-> Resp(i), at |-> i]]

NoEdit == [pc |-> "idle", msg |-> 0, resp |-> 0]

\* the state after k commands were handled one after another
LogsStart(k) ==
    /\ cmd_logs = Handled(k)
    /\ ninserted = k
    /\ sent = {Resp(i) : i \in 1..k}
    /\ mpc = [m \in NewMsgs |-> "none"]
    /\ deleted = {}
    /\ etask = NoEdit
    /\ edited = <<>>

LogsInit == LogsStart(0)

\* the invoking messages followed: one handled long ago, and the new ones
Invokes == {1} \cup NewMsgs

\* the messages whose deletion is followed: those and their responses
DelTargets == Invokes \cup {Resp(m) : m \in Invokes}

\* the keys of the dict
LogKeys(log) == {log[i].id : i \in 1..Len(log)}

\* the position of key k in the dict
LogIndex(log, k) == CHOOSE i \in 1..Len(log) : log[i].id = k

\* cmd_logs[k]
LogGet(log, k) == log[LogIndex(log, k)].resp

\* del cmd_logs[k] for the key at position i
LogDel(log, i) == SubSeq(log, 1, i - 1) \o SubSeq(log, i + 1, Len(log))

\* cmd_logs[k] = v, as the n-th insertion: a new key goes last, a key of
\* the dict keeps its place
LogPut(log, k, v, n) ==
    IF k \in LogKeys(log)
      THEN [log EXCEPT ![LogIndex(log, k)].resp = v]
      ELSE Append(log, [id |-> k, resp |-> v, at |-> n])

\* a handle_message that evicts the last key of the dict
EvictNewest(log) ==
    IF Len(log) > LogCap THEN LogDel(log, Len(log)) ELSE log

\* lines 106-107: if len(cmd_logs) > 100: del cmd_logs[list(cmd_logs)[0]]
Evict(log) ==
    IF Len(log) > LogCap THEN LogDel(log, 1) ELSE log

\* message x was posted: an invoking message by a user (its handle_message
\* was called), or a response message by the bot
Posted(x) ==
    IF x \in NewMsgs THEN mpc[x] # "none"
    ELSE IF x \in Invokes THEN Resp(x) \in sent
    ELSE x \in sent

\* handle_message(msg), lines 99-102: nothing for a message without the
\* prefix; else handle(msg) is awaited, which awaits embed_utils.send
HandleMessage(m, prefix) ==
    /\ mpc[m] = "none"
    /\ mpc' = [mpc EXCEPT ![m] = IF prefix THEN "send" ELSE "done"]
    /\ UNCHANGED <<cmd_logs, ninserted, sent, deleted, etask, edited>>
    /\ UNCHANGED <<pullvars, sessvars, handlevars, permvars, helpvars, gitvars>>

\* embed_utils.send of handle (lines 56-61) returned the response message
\* and handle goes on to its next awaits, or it raised
SendDone(m, ok) ==
    /\ mpc[m] = "send"
    /\ IF ok THEN /\ sent' = sent \cup {Resp(m)}
                  /\ mpc' = [mpc EXCEPT ![m] = "handle"]
             ELSE /\ mpc' = [mpc EXCEPT ![m] = "done"]
                  /\ UNCHANGED sent
    /\ UNCHANGED <<cmd_logs, ninserted, deleted, etask, edited>>
    /\ UNCHANGED <<pullvars, sessvars, handlevars, permvars, helpvars, gitvars>>

\* handle returned response_msg (commands/__init__.py:94) and
\* handle_message, lines 103-107, records it and evicts; or handle raised
HandleDone(m, ok) ==
    /\ mpc[m] = "handle"
    /\ mpc' = [mpc EXCEPT ![m] = "done"]
    /\ IF ok THEN /\ cmd_logs' = Evict(LogPut(cmd_logs, m, Resp(m), ninserted + 1))
                  /\ ninserted' = ninserted + 1
             ELSE UNCHANGED <<cmd_logs, ninserted>>
    /\ UNCHANGED <<sent, deleted, etask, edited>>
    /\ UNCHANGED <<pullvars, sessvars, handlevars, permvars, helpvars, gitvars>>

\* message_delete(msg), lines 71-78: the entry of an invoking message, or
\* the first entry whose response is the deleted message of the bot
MessageDelete(x) ==
    /\ Cardinality(deleted) < MaxDeletes
    /\ x \notin deleted /\ Posted(x)
    /\ deleted' = deleted \cup {x}
    /\ cmd_logs' =
          IF x \in LogKeys(cmd_logs) THEN LogDel(cmd_logs, LogIndex(cmd_logs, x))
          ELSE IF x \in sent /\ \E i \in 1..Len(cmd_logs) : cmd_logs[i].resp = x
            THEN LogDel(cmd_logs,
                        CHOOSE i \in 1..Len(cmd_logs) :
                            /\ cmd_logs[i].resp = x
                            /\ \A j \in 1..(i - 1) : cmd_logs[j].resp # x)
          ELSE cmd_logs
    /\ UNCHANGED <<ninserted, sent, mpc, etask, edited>>
    /\ UNCHANGED <<pullvars, sessvars, handlevars, permvars, helpvars, gitvars>>

\* a message_edit that dispatches every edited message with the prefix: one
\* without an entry as handle_message does
MessageEditAlways(m, prefix) ==
    /\ Len(edited) < MaxEdits /\ etask.pc = "idle"
    /\ Posted(m) /\ m \notin deleted
    /\ IF prefix
         THEN /\ etask' = [pc |-> "handle", msg |-> m,
                           resp |-> IF m \in LogKeys(cmd_logs)
                                      THEN LogGet(cmd_logs, m) ELSE Resp(m)]
              /\ sent' = sent \cup {etask'.resp}
              /\ edited' = Append(edited, [msg |-> m, prefix |-> prefix,
                                           dispatched |-> TRUE,
                                           resp |-> etask'.resp])
         ELSE /\ edited' = Append(edited, [msg |-> m, prefix |-> prefix,
                                           dispatched |-> FALSE, resp |-> 0])
              /\ UNCHANGED <<etask, sent>>
    /\ UNCHANGED <<cmd_logs, ninserted, mpc, deleted>>
    /\ UNCHANGED <<pullvars, sessvars, handlevars, permvars, helpvars, gitvars>>

\* message_edit(old, new), lines 85-90: for new content with the prefix and
\* an entry of new.id, handle(new, cmd_logs[new.id]) is awaited
MessageEdit(m, prefix) ==
    /\ Len(edited) < MaxEdits /\ etask.pc = "idle"
    /\ Posted(m) /\ m \notin deleted
    /\ IF prefix /\ m \in LogKeys(cmd_logs)
         THEN /\ etask' = [pc |-> "handle", msg |-> m,
                           resp |-> LogGet(cmd_logs, m)]
              /\ edited' = Append(edited, [msg |-> m, prefix |-> prefix,
                                           dispatched |-> TRUE,
                                           resp |-> LogGet(cmd_logs, m)])
         ELSE /\ edited' = Append(edited, [msg |-> m, prefix |-> prefix,
                                           dispatched |-> FALSE, resp |-> 0])
              /\ UNCHANGED etask
    /\ UNCHANGED <<cmd_logs, ninserted, sent, mpc, deleted>>
    /\ UNCHANGED <<pullvars, sessvars, handlevars, permvars, helpvars, gitvars>>

\* the handle awaited by message_edit returned or raised (lines 88-92: a
\* discord.HTTPException is dropped, another exception leaves the task)
EditHandleDone ==
    /\ etask.pc = "handle"
    /\ etask' = NoEdit
    /\ UNCHANGED <<cmd_logs, ninserted, sent, mpc, deleted, edited>>
    /\ UNCHANGED <<pullvars, sessvars, handlevars, permvars, helpvars, gitvars>>

Init ==
    /\ PullInit /\ SessInit /\ HandleInit /\ NoRegistry /\ PermsInit /\ HelpInit
    /\ GitInit /\ LogsInit

\* the sessions are followed with the tool installed and no pull running
InitInstalled == Init /\ installed = TRUE

\* the external tool guard: calls of pull_kithare, setup_kcr and run_kcr
\* as tasks of one event loop
PullNext ==
    \E t \in Tasks :
        \/ CmdPullKithare(t)
        \/ SetupKcr(t)
        \/ PullEnter(t)
        \/ PullReplace1Done(t)
        \/ PullRmDist(t)
        \/ PullGetDone(t)
        \/ PullReadDone(t)
        \/ PullExtract(t)
        \/ PullGlob(t)
        \/ PullInstall(t)
        \/ PullReplace2Done(t)
        \/ PullFinally(t)
        \/ RunKcr(t)
        \/ RunPoll(t)
        \/ RunExec(t)

SpecPull == Init /\ [][PullNext]_vars

\* the event loop resumes every task that can run, every awaited fetch, read
\* and message edit of a started pull ends, and every subprocess.run ends;
\* nothing obliges a command to be issued
PullFair ==
    \A t \in Tasks :
        /\ WF_vars(PullEnter(t))
        /\ WF_vars(PullReplace1Done(t))
        /\ WF_vars(PullRmDist(t))
        /\ WF_vars(PullGetDone(t))
        /\ WF_vars(PullReadDone(t))
        /\ WF_vars(PullExtract(t))
        /\ WF_vars(PullGlob(t))
        /\ WF_vars(PullInstall(t))
        /\ WF_vars(PullReplace2Done(t))
        /\ WF_vars(PullFinally(t))
        /\ WF_vars(RunPoll(t))
        /\ WF_vars(RunExec(t))

SpecPullFair == Init /\ [][PullNext]_vars /\ PullFair

\* the tool guard on a host where the binary is installed
SpecTool == InitInstalled /\ [][PullNext]_vars

\* one PagedEmbed, constructed with any arguments; its wait_for may time
\* out whenever it is pending
PagedNext ==
    \/ \E m \in Msgs : NewSession(1, m)
    \/ SetupEditDone(1)
    \/ AddControlsDone(1)
    \/ \E e \in Events : RawReactionAdd(e)
    \/ CheckEvent(1)
    \/ RemoveDone(1)
    \/ Handle(1)
    \/ EditDone(1)
    \/ WaitTimeout(1)
    \/ ClearDone(1)

SpecPaged == InitInstalled /\ [][PagedNext]_vars

\* one PagedEmbed followed with the clock of its wait window
TimedNext ==
    \/ \E m \in Msgs : CmdPaged(1, m)
    \/ SetupEditDone(1)
    \/ AddControlsDone(1)
    \/ \E e \in Events : RawReactionAdd(e)
    \/ CheckEvent(1)
    \/ RemoveDone(1)
    \/ Handle(1)
    \/ EditDone(1)
    \/ TimedOut(1)
    \/ ClearDone(1)
    \/ Tick

SpecTimed == InitInstalled /\ [][TimedNext]_vars

\* one session with a long page list that its caller navigates
NavNext ==
    \/ \E m \in Msgs : CmdLong(1, m)
    \/ SetupEditDone(1)
    \/ AddControlsDone(1)
    \/ \E e \in NavEvents : RawReactionAdd(e)
    \/ CheckEvent(1)
    \/ RemoveDone(1)
    \/ Handle(1)
    \/ EditDone(1)
    \/ WaitTimeout(1)
    \/ ClearDone(1)

SpecNav == InitInstalled /\ [][NavNext]_vars

\* kh!refresh on the messages of sessions built with any arguments
FooterNext ==
    \/ \E m \in Msgs : NewSession(1, m)
    \/ \E s \in Sess, m \in Msgs : CmdRefresh(s, m)
    \/ \E m \in Msgs : CmdRefreshRaises(m)
    \/ \E s \in Sess : SetupEditDone(s)
    \/ \E s \in Sess : AddControlsDone(s)
    \/ \E s \in Sess : WaitTimeout(s)
    \/ \E s \in Sess : ClearDone(s)

SpecFooter == InitInstalled /\ [][FooterNext]_vars

\* commands and kh!refresh invocations that build sessions side by side
RefreshNext ==
    \/ \E s \in Sess, m \in Msgs : CmdPaged(s, m)
    \/ \E s \in Sess, m \in Msgs : CmdRefresh(s, m)
    \/ \E s \in Sess : SetupEditDone(s)
    \/ \E s \in Sess : AddControlsDone(s)
    \/ \E e \in RefreshEvents : RawReactionAdd(e)
    \/ \E s \in Sess : CheckEvent(s)
    \/ \E s \in Sess : RemoveDone(s)
    \/ \E s \in Sess : Handle(s)
    \/ \E s \in Sess : EditDone(s)
    \/ \E s \in Sess : WaitTimeout(s)
    \/ \E s \in Sess : ClearDone(s)

SpecRefresh == InitInstalled /\ [][RefreshNext]_vars

\* handle with any registries, called with any command string by any invoker
InitHandle ==
    /\ PullInit
    /\ SessInit
    /\ HandleInit
    /\ PermsInit
    /\ HelpInit
    /\ GitInit
    /\ LogsInit
    /\ installed = TRUE
    /\ admin_cmds \in Registries
    /\ user_cmds \in Registries

HandleNext ==
    \/ \E adm \in BOOLEAN, a \in CallArgs : HandleCommand(adm, a)
    \/ HandlerReturns
    \/ TryRaises
    \/ HandlerExits
    \/ AwaitReturns
    \/ ExceptRaises

SpecHandle == InitHandle /\ [][HandleNext]_vars

\* handle, with cmd_stop among the handlers it invokes
StopNext ==
    \/ \E adm \in BOOLEAN, a \in CallArgs : HandleCommand(adm, a)
    \/ HandlerReturns
    \/ TryRaises
    \/ \E no_restart \in BOOLEAN : CmdStop(no_restart)
    \/ StopEditDone
    \/ StopEditRaises
    \/ AwaitReturns
    \/ ExceptRaises

SpecStop == InitHandle /\ [][StopNext]_vars

\* handle of kithscord/commands called for one member, from anywhere, with
\* the primary guild found at start-up or not
InitPerms ==
    /\ PullInit
    /\ SessInit
    /\ HandleInit
    /\ NoRegistry
    /\ HelpInit
    /\ GitInit
    /\ LogsInit
    /\ installed = TRUE
    /\ roles \in [primary : SUBSET PrimaryRoles, other : SUBSET OtherRoles]
    /\ origin = "other"
    /\ guild \in BOOLEAN
    /\ npc = "idle"
    /\ request = "nope"
    /\ perms = NoPerms
    /\ ran = <<>>

PermsNext ==
    \/ \E req \in Requests, o \in Origins : HandleEnter(req, o)
    \/ \E found \in BOOLEAN : GetPerms(found)
    \/ HandleCmd
    \/ \E r \in PrimaryRoles : RoleChange("primary", r)
    \/ \E r \in OtherRoles : RoleChange("other", r)

SpecPerms == InitPerms /\ [][PermsNext]_vars

\* the bot runs one of the two dispatchers: handle of Kithscord/commands.py
\* for a member of the primary guild, or handle of kithscord/commands
InitGate ==
    /\ PullInit
    /\ SessInit
    /\ HelpInit
    /\ GitInit
    /\ LogsInit
    /\ installed = TRUE
    /\ args = <<>>
    /\ is_admin = FALSE
    /\ invoked = <<>>
    /\ edits = <<>>
    /\ logs = 0
    /\ stop = NoStop
    /\ roles \in [primary : SUBSET PrimaryRoles, other : SUBSET OtherRoles]
    /\ request = "nope"
    /\ perms = NoPerms
    /\ ran = <<>>
    /\ \/ /\ hpc = "idle"
          /\ npc = "absent"
          /\ admin_cmds \in Registries
          /\ user_cmds \in Registries
          /\ origin = "primary"
          /\ guild = TRUE
       \/ /\ hpc = "absent"
          /\ npc = "idle"
          /\ NoRegistry
          /\ origin = "other"
          /\ guild \in BOOLEAN

GateNext ==
    \/ \E a \in CallArgs : HandleCommand(HasAdminRole(MemRoles(origin)), a)
    \/ HandlerReturns
    \/ TryRaises
    \/ HandlerExits
    \/ AwaitReturns
    \/ ExceptRaises
    \/ \E req \in Requests, o \in Origins : HandleEnter(req, o)
    \/ \E found \in BOOLEAN : GetPerms(found)
    \/ HandleCmd
    \/ \E r \in PrimaryRoles : RoleChange("primary", r)
    \/ \E r \in OtherRoles : RoleChange("other", r)

SpecGate == InitGate /\ [][GateNext]_vars

\* kh!help requests, one after the other
HelpNext == \E names \in HelpNames : CmdHelp(names)

SpecHelp == InitInstalled /\ [][HelpNext]_vars

\* kh!pull and kh!pull kithscord, on the bot host or on a local test setup
InitGit ==
    /\ PullInit /\ SessInit /\ HandleInit /\ NoRegistry /\ PermsInit /\ HelpInit
    /\ LogsInit
    /\ installed = TRUE
    /\ local_test \in BOOLEAN
    /\ gpc = "idle"
    /\ gran = <<>>
    /\ gshow = FALSE
    /\ gout = <<>>

GitNext ==
    \/ CmdPull
    \/ \E ok \in BOOLEAN : PullKithareDone(ok)
    \/ \E show_log \in BOOLEAN : CmdPullKithscord(show_log)
    \/ \E e \in GitEnds : GitRun(e)
    \/ \E ok \in BOOLEAN : GitReplyDone(ok)
    \/ \E ok \in BOOLEAN : GitStopDone(ok)

SpecGit == InitGit /\ [][GitNext]_vars

\* the numbers of commands handled before the messages followed are posted:
\* none, and one less than the dict may hold
Prefills == {0, LogCap - 1}

\* handle_message, message_edit and message_delete as tasks of one event
\* loop
InitLogs ==
    /\ PullInit /\ SessInit /\ HandleInit /\ NoRegistry /\ PermsInit /\ HelpInit
    /\ GitInit
    /\ installed = TRUE
    /\ \E k \in Prefills : LogsStart(k)

LogsNext ==
    \/ \E m \in NewMsgs, prefix \in BOOLEAN : HandleMessage(m, prefix)
    \/ \E m \in NewMsgs, ok \in BOOLEAN : SendDone(m, ok)
    \/ \E m \in NewMsgs, ok \in BOOLEAN : HandleDone(m, ok)
    \/ \E x \in DelTargets : MessageDelete(x)
    \/ \E m \in Invokes, prefix \in BOOLEAN : MessageEdit(m, prefix)
    \/ EditHandleDone

SpecLogs == InitLogs /\ [][LogsNext]_vars

(***************************************************************************)
(* Claims about the external tool guard.                                   *)
(***************************************************************************)

\* every started call has ended
AllDone == \A t \in Tasks : tpc[t] \in {"idle", "done"}

\* At most one task is inside the pull sequence, the flag is set all through
\* it, and a refused call has done no fetch and no filesystem step.
SingleFlightMutex ==
    /\ Cardinality({t \in Tasks : InPull(t)}) <= 1
    /\ \A t \in Tasks : InPull(t) => is_pulling
    /\ \A t \in Tasks : result[t] = "AlreadyPulling" => ~touched[t]

\* C1: single-flight pull.  At most one task is inside pull_kithare's pull
\* sequence; of two concurrent calls one runs the sequence and the other is
\* refused with AlreadyPulling before any fetch or filesystem step; and
\* is_pulling is false once both have completed.
C1_SingleFlightPull ==
    /\ SingleFlightMutex
    /\ (AllDone /\ \E t \in Tasks : result[t] = "AlreadyPulling") => ~is_pulling

\* C2: whenever a task leaves the pull sequence it entered with the flag
\* acquired (by success or by any failure, the staging-directory cleanup
\* included), is_pulling is false when control returns to the caller.
C2_FlagClearedOnExit ==
    [][\A t \in Tasks : (InPull(t) /\ ~InPull(t)') => ~is_pulling']_vars

\* C3: retry-once.  A run_kcr call whose first execution finds the binary
\* missing makes exactly one pull_kithare call and at most one further
\* execution attempt; a second missing binary ends the call with ToolMissing;
\* there is never a second pull or a third execution.
C3_RetryOnce ==
    \A t \in Tasks :
        /\ nexec[t] <= 2
        /\ npull[t] <= 1
        /\ nmiss[t] >= 1 => npull[t] = 1
        /\ nexec[t] = 2 => nmiss[t] >= 1
        /\ nmiss[t] = 2 => tpc[t] = "done" /\ result[t] = "ToolMissing"
        /\ result[t] = "ToolMissing" => nmiss[t] = 2 /\ nexec[t] = 2

\* a run_kcr call that found the binary missing, pulled, found it missing
\* again and ended with ToolMissing
C3_Witness ==
    \E t \in Tasks : kind[t] = "run" /\ nmiss[t] = 2 /\ npull[t] = 1
                     /\ result[t] = "ToolMissing"

(***************************************************************************)
(* Claims about the paginated display controller.                          *)
(***************************************************************************)
\* handle_reaction of session s is about to run the branch of control key
HandlesKey(s, key) ==
    scur = s /\ spc[s] = "handle" /\ todo[s] # <<>> /\ Head(todo[s]) = key

\* C4: in a session with N pages, handling NEXT sets current_page to
\* (current_page + 1) mod N and handling PREV sets it to
\* (current_page - 1) mod N; PREV from index 0 gives N - 1 and NEXT from
\* index N - 1 gives 0.
C4_Wraparound ==
    [][\A s \in Sess :
          LET cp == current_page[s]
              n == npages[s]
          IN /\ HandlesKey(s, "next") =>
                  /\ current_page'[s] = (cp + 1) % n
                  /\ cp = n - 1 => current_page'[s] = 0
             /\ HandlesKey(s, "prev") =>
                  /\ current_page'[s] = (cp - 1) % n
                  /\ cp = 0 => current_page'[s] = n - 1]_vars

\* PREV was handled from index 0 of a three-page session: the edit that
\* shows the last page is in flight
C4_Witness ==
    \E s \in Sess :
        /\ spc[s] = "editing" /\ npages[s] = 3
        /\ ev[s].emoji = Glyph.prev
        /\ current_page[s] = 2 /\ out[s].idx = 2

\* the states of a session from its first rendering on
Rendered(s) ==
    spc[s] \in LoopStates \cup {"add_controls", "clearing", "returned"}

\* C5: in every state of a multi-page session from the first rendering of
\* SETUP on, 0 <= current_page < len(pages), for every start_page the
\* session can be constructed with.
C5_IndexInRange ==
    \A s \in Sess :
        (npages[s] >= 2 /\ Rendered(s)) =>
            (0 <= current_page[s] /\ current_page[s] < npages[s])

\* C6: every accepted control event dispatched to a session that is not
\* stopped has been passed to handle_reaction when the loop waits for the
\* next event.
C6_NoEventLost ==
    \A s \in Sess : (spc[s] = "wait" /\ ~killed[s]) => unhandled[s] = 0

\* C7: no two mainloops consume reaction events for the same message at the
\* same time.
C7_OneLoopPerMessage ==
    \A s1, s2 \in Sess :
        (s1 # s2 /\ Consuming(s1) /\ Consuming(s2)) => smsg[s1] # smsg[s2]

\* C8: in a session created without a caller, no event of a guild member
\* that is not a bot is denied on the session's message.
C8_AnyoneAccepted ==
    \A s \in Sess : caller[s] = {} => lastcheck[s] # "denied"

\* the event session s is checking is for its message and comes from a
\* member who is not a bot and is in the caller list or holds an admin role
Authorized(s) ==
    /\ ev[s].msg = smsg[s]
    /\ ev[s].member \in Members /\ ~IsBot(ev[s].member)
    /\ (ev[s].member \in caller[s] \/ IsAdmin(ev[s].member))

\* the event session s is checking is for another message, from a bot, or
\* from a member neither listed nor admin
Unauthorized(s) ==
    \/ ev[s].msg # smsg[s]
    \/ /\ ev[s].member \in Members
       /\ \/ IsBot(ev[s].member)
          \/ ~(ev[s].member \in caller[s] \/ IsAdmin(ev[s].member))

\* C9: with a caller list, check passes an event to handle_reaction if and
\* only if it is for the session's message and its actor is not a bot and is
\* listed or admin; any other event of a bot, of another message or of
\* another member sends the loop back to wait_for with current_page,
\* is_on_info, killed and the displayed embed unchanged.  The steps are those
\* of check once remove_reaction has returned.
C9_AllowList ==
    [][\A s \in Sess :
          (caller[s] # {} /\ spc[s] \in {"got", "removing"}
                /\ spc'[s] # spc[s]
                /\ ~(spc[s] = "removing" /\ spc'[s] = "raised")) =>
             /\ spc'[s] = "handle" <=> (spc[s] = "removing" /\ Authorized(s))
             /\ (spc[s] = "got" /\ Authorized(s)) => spc'[s] = "removing"
             /\ Unauthorized(s) =>
                  /\ spc'[s] \in {"wait", "removing"}
                  /\ spc[s] = "removing" => spc'[s] = "wait"
                  /\ (ev[s].msg # smsg[s] \/ IsBot(ev[s].member)) =>
                        spc'[s] = "wait"
                  /\ current_page'[s] = current_page[s]
                  /\ is_on_info'[s] = is_on_info[s]
                  /\ killed'[s] = killed[s]
                  /\ out'[s] = out[s]
                  /\ shown' = shown]_vars

\* a member who is neither listed nor admin was denied while the session
\* showed its second page
C9_Witness ==
    \E s \in Sess :
        /\ caller[s] = {"alice"} /\ lastcheck[s] = "denied"
        /\ spc[s] = "wait" /\ shown[smsg[s]].kind = "page"
        /\ current_page[s] = 1 /\ shown[smsg[s]].idx = 1

\* C10: a live session that waits has not waited longer than the window
\* since a control event for it last arrived, whatever other events arrive.
C10_TimeoutBound ==
    \A s \in Sess : (Listening(s) /\ ~killed[s]) => idle[s] <= Timeout

\* C11: when handle_reaction has run for a STOP event the session is
\* killed; a killed session stays killed, its loop never waits for or
\* checks another event, its current_page and is_on_info never change, and
\* when its mainloop has returned no control reaction is left on the message.
C11_StopIsFinal ==
    /\ [](\A s \in Sess :
            /\ (spc[s] = "handle" /\ todo[s] = <<>> /\ ev[s].emoji = Glyph.stop)
                  => killed[s]
            /\ (killed[s] /\ spc[s] = "returned") => controls[smsg[s]] = {})
    /\ [][\A s \in Sess :
            killed[s] =>
               /\ killed'[s]
               /\ spc'[s] \in {"handle", "clearing", "returned", "raised"}
               /\ ev'[s] \in {ev[s], NoEvent}
               /\ current_page'[s] = current_page[s]
               /\ is_on_info'[s] = is_on_info[s]]_vars

\* handle_reaction has run for a STOP event on the second page of a session
\* with a caller list
C11_Witness ==
    \E s \in Sess :
        /\ spc[s] = "handle" /\ killed[s] /\ ev[s].emoji = Glyph.stop
        /\ caller[s] # {} /\ current_page[s] = 1

\* C12: a session with an empty page list shows the internal-error page and
\* one with a single page shows that page; neither adds a control reaction
\* nor waits for, receives or checks a reaction event, and its mainloop ends
\* after the edit.  A session inside the event loop has two or more pages
\* and its controls are attached to the message.
C12_SetupShortLists ==
    \A s \in Sess :
        /\ (spc[s] # "none" /\ npages[s] < 2) =>
              /\ spc[s] \in {"setup_edit", "returned", "raised"}
              /\ controls[smsg[s]] = {}
              /\ ev[s] = NoEvent /\ lastcheck[s] = "none"
              /\ spc[s] = "returned" =>
                    shown[smsg[s]] = IF npages[s] = 0 THEN ErrorEmbed ELSE RawPage
              /\ spc[s] = "raised" => shown[smsg[s]] = NoEmbed
        /\ Consuming(s) =>
              /\ npages[s] >= 2
              /\ controls[smsg[s]] = AttachedKeys(npages[s])
              /\ controls[smsg[s]] # {}

\* the mainloop of a session with a single page has returned with the page
\* shown
C12_Witness ==
    \E s \in Sess :
        /\ npages[s] = 1 /\ spc[s] = "returned"
        /\ shown[smsg[s]] = RawPage /\ controls[smsg[s]] = {}

\* the navigation controls
NavKeys == {"next", "prev", "first", "last"}

\* C13: handling INFO outside the overlay sets is_on_info and edits the
\* legend page in; handling INFO in the overlay clears is_on_info and edits
\* pages[current_page] in with current_page unchanged; handling NEXT, PREV,
\* FIRST or LAST in the overlay clears is_on_info and edits a page in.  An
\* edit that returns displays the embed, and a waiting session displays the
\* legend exactly when is_on_info is set.
C13_InfoOverlay ==
    /\ [](\A s \in Sess :
            spc[s] = "wait" => (is_on_info[s] <=> shown[smsg[s]].kind = "info"))
    /\ [][\A s \in Sess :
            /\ (HandlesKey(s, "info") /\ ~is_on_info[s]) =>
                  /\ is_on_info'[s] /\ current_page'[s] = current_page[s]
                  /\ spc'[s] = "editing" /\ out'[s].kind = "info"
            /\ (HandlesKey(s, "info") /\ is_on_info[s]) =>
                  /\ ~is_on_info'[s] /\ current_page'[s] = current_page[s]
                  /\ spc'[s] = "editing" /\ out'[s].kind = "page"
                  /\ out'[s].idx = PyIndex(current_page[s], npages[s])
            /\ (is_on_info[s] /\ \E k \in NavKeys : HandlesKey(s, k)) =>
                  /\ ~is_on_info'[s]
                  /\ spc'[s] = "editing" /\ out'[s].kind = "page"
                  /\ out'[s].idx = current_page'[s]
            /\ (spc[s] = "editing" /\ spc'[s] = "handle") =>
                  shown'[smsg[s]] = out[s]]_vars

\* NEXT is being handled in the overlay: the legend is still displayed, the
\* flag is cleared and the edit of the next page is in flight
C13_Witness ==
    \E s \in Sess :
        /\ spc[s] = "editing" /\ ev[s].emoji = Glyph.next
        /\ shown[smsg[s]].kind = "info"
        /\ ~is_on_info[s] /\ out[s].kind = "page"

\* the keys of a sequence of control keys
KeysOf(seq) == {seq[i] : i \in 1..Len(seq)}

\* C14: of a session with two or more pages, the legend lists FIRST and
\* LAST, and the loop runs with their reactions attached, exactly when the
\* session has three pages or more; no emoji makes a session with fewer
\* pages run the first or last branch, and no emoji makes handle_reaction
\* run more than one branch.
C14_FirstLastFromThree ==
    \A s \in Sess :
        (spc[s] # "none" /\ npages[s] >= 2) =>
            /\ \A k \in {"first", "last"} :
                  /\ k \in LegendKeys(npages[s]) <=> npages[s] >= 3
                  /\ Consuming(s) => (k \in controls[smsg[s]] <=> npages[s] >= 3)
            /\ \A e \in Emojis :
                  /\ Len(Triggered(e, npages[s])) <= 1
                  /\ npages[s] < 3 =>
                        KeysOf(Triggered(e, npages[s])) \cap {"first", "last"} = {}
                  /\ npages[s] >= 3 =>
                        \A k \in ControlKeys :
                            e = Glyph[k] => Triggered(e, npages[s]) = <<k>>
            /\ Len(todo[s]) <= 1
            /\ npages[s] < 3 => KeysOf(todo[s]) \cap {"first", "last"} = {}

\* a two-page session has accepted an event with the rewind emoji and
\* handle_reaction runs no branch for it
C14_Witness ==
    \E s \in Sess :
        /\ npages[s] = 2 /\ spc[s] = "handle" /\ scur = s
        /\ ev[s].emoji = Glyph.first /\ todo[s] = <<>>
        /\ controls[smsg[s]] = {"prev", "stop", "info", "next"}

\* C15: in a session with three pages or more, handling FIRST sets
\* current_page to 0 and handling LAST sets it to len(pages) - 1, whatever
\* the page and the overlay; every navigation branch sets current_page to
\* NavResult, and from every page LAST, PREV, PREV give len(pages) - 3
\* (22 of 25 pages).
C15_FirstLast ==
    /\ [](\A s \in Sess :
            (npages[s] >= 3 /\ Rendered(s)) =>
                LET n == npages[s]
                    afterLast == NavResult("last", current_page[s], n)
                    afterPrev == NavResult("prev", afterLast, n)
                IN /\ afterLast = n - 1
                   /\ NavResult("first", current_page[s], n) = 0
                   /\ NavResult("prev", afterPrev, n) = n - 3)
    /\ [][\A s \in Sess :
            npages[s] >= 3 =>
               /\ HandlesKey(s, "first") => current_page'[s] = 0
               /\ HandlesKey(s, "last") => current_page'[s] = npages[s] - 1
               /\ \A k \in NavKeys :
                     HandlesKey(s, k) =>
                        /\ current_page'[s] = NavResult(k, current_page[s], npages[s])
                        /\ out'[s].idx = current_page'[s]]_vars

\* in the longest list a PREV is being handled that leads from the page
\* before the last to index len(pages) - 3
C15_Witness ==
    \E s \in Sess :
        /\ npages[s] = LongPages /\ spc[s] = "editing"
        /\ ev[s].emoji = Glyph.prev
        /\ shown[smsg[s]].idx = LongPages - 2
        /\ current_page[s] = LongPages - 3

\* session s is built by this step on the message of session r
BuiltOn(s, r) ==
    /\ s # r /\ spc[s] = "none" /\ spc'[s] # "none"
    /\ spc[r] # "none" /\ smsg'[s] = smsg[r]

\* C16: when kh!refresh builds a session on the message of a waiting
\* refreshable multi-page session at index i, with a page or the info
\* overlay displayed, the new session is built with start page i and with
\* the command string of that session, on the same message.
C16_RefreshRoundTrip ==
    [][\A s, r \in Sess :
          (BuiltOn(s, r) /\ spc[r] = "wait" /\ npages[r] >= 2
                /\ command[r] # NoCommand) =>
             /\ current_page'[s] = current_page[r]
             /\ command'[s] = command[r]]_vars

\* C17: a kh!refresh on a footer that has not exactly three lines, or whose
\* third line does not start with "Command: ", ends with the 'Message does
\* not support pages' failure, with the response message not deleted and no
\* command run again.
C17_RefreshRejects ==
    (refreshed.outcome # "none" /\ (refreshed.lines # 3 \/ ~refreshed.marker)) =>
        (refreshed.outcome = "NotPaged" /\ ~refreshed.deleted)

\* C18: while a multi-page session waits for an event, the footer of the
\* embed its message displays (a page or the info overlay) shows the number
\* current_page + 1 and the total len(pages), with the refresh hint and the
\* "Command: " line of the session's command exactly when it has one.
C18_FooterEncodes ==
    \A s \in Sess :
        (npages[s] >= 2 /\ spc[s] = "wait") =>
            LET e == shown[smsg[s]]
            IN /\ e.num = current_page[s] + 1
               /\ e.total = npages[s]
               /\ e.lines = (IF command[s] # NoCommand THEN 3 ELSE 1)
               /\ e.third = (IF command[s] # NoCommand
                               THEN <<Marker>> \o command[s] ELSE <<>>)

\* C19: when check gets an event without member, the event of the session's
\* own message raises the 'Paged embeds are not supported in DMs.' failure
\* out of mainloop, which ends there, and the event of another message
\* sends the loop back to wait_for with the session as it was.
C19_NoMember ==
    [][\A s \in Sess :
          (spc[s] = "got" /\ ev[s].member = NoMember /\ spc'[s] # "got") =>
             IF ev[s].msg = smsg[s]
               THEN /\ spc'[s] = "raised" /\ lastcheck'[s] = "dm_error"
                    /\ ~Consuming(s)'
               ELSE /\ spc'[s] = "wait" /\ lastcheck'[s] = "other_msg"
                    /\ killed'[s] = killed[s]
                    /\ current_page'[s] = current_page[s]
                    /\ is_on_info'[s] = is_on_info[s]
                    /\ shown' = shown]_vars

\* mainloop was left, not killed, with the failure of an event without
\* member on the session's own message
C19_Witness ==
    \E s \in Sess :
        /\ spc[s] = "raised" /\ lastcheck[s] = "dm_error"
        /\ ev[s].member = NoMember /\ ev[s].msg = smsg[s]
        /\ ~killed[s]

(***************************************************************************)
(* Claims about the command dispatcher.                                    *)
(***************************************************************************)

\* the keys of the handlers handle looks at for the call: those of the
\* admin registry for an admin invoker, and those of the user registry
Variants ==
    (IF is_admin /\ args[1] \in DOMAIN admin_cmds
       THEN admin_cmds[args[1]] ELSE {})
    \cup (IF args[1] \in DOMAIN user_cmds THEN user_cmds[args[1]] ELSE {})

\* C20: a call whose argument count is the key of none of the command's
\* handlers, for a command without variadic handler, invokes no handler; for
\* a command of the user registry the display handle asks for is
\* 'Incorrect amount of argument(s)!', followed by no other display but
\* that of the except clause when the edit raised.
C20_NoPartialMatch ==
    (/\ hpc # "idle"
     /\ args # <<>>
     /\ ArgLength(args) \notin Variants
     /\ Variadic \notin Variants)
        => /\ invoked = <<>>
           /\ logs = 0
           /\ args[1] \in DOMAIN user_cmds
                => /\ edits # <<>>
                   /\ Head(edits) = Incorrect
                   /\ \A i \in 2..Len(edits) :
                          i = 2 /\ edits[i] = ExceptionOccured

\* a user called a command with handlers for 0 and 2 arguments with one
\* argument, and handle returned after the display
C20_Witness ==
    /\ hpc = "returned"
    /\ ~is_admin
    /\ args = <<"cmd", "arg">>
    /\ "cmd" \in DOMAIN user_cmds
    /\ user_cmds["cmd"] = {0, 2}
    /\ invoked = <<>>
    /\ edits = <<Incorrect>>

\* the invoker may call the command: it is a user command, or an admin
\* command and the invoker is an admin
Permitted ==
    \/ args[1] \in DOMAIN user_cmds
    \/ is_admin /\ args[1] \in DOMAIN admin_cmds

\* C21: a call of a registered command the invoker may call, with an
\* argument count that fits none of its handlers, is answered with
\* 'Incorrect amount of argument(s)!' and never with 'Unrecognized command!'.
C21_MismatchNotUnknown ==
    (/\ hpc # "idle"
     /\ args # <<>>
     /\ Permitted
     /\ ArgLength(args) \notin Variants
     /\ Variadic \notin Variants)
        => /\ edits # <<>>
           /\ Head(edits) = Incorrect
           /\ \A i \in 1..Len(edits) : edits[i] # Unrecognized

\* the number of displays of the call with the given title
Shown(title) == Cardinality({i \in 1..Len(edits) : edits[i] = title})

\* C22: a call of a name that is in neither registry the invoker may use
\* invokes no handler and asks for the 'Unrecognized command!' display once,
\* which nothing follows but the display of the except clause when the edit
\* raised; an empty command string returns with no handler invoked and no
\* display.
C22_UnknownOnce ==
    /\ (/\ hpc # "idle"
        /\ args # <<>>
        /\ ~Permitted)
           => /\ invoked = <<>>
              /\ logs = 0
              /\ edits # <<>>
              /\ Head(edits) = Unrecognized
              /\ Shown(Unrecognized) = 1
              /\ Shown(Incorrect) = 0
              /\ hpc \in {"edit", "except", "returned", "raised"}
    /\ (hpc # "idle" /\ args = <<>>)
           => /\ hpc = "returned"
              /\ invoked = <<>>
              /\ edits = <<>>
              /\ logs = 0

\* a user called a command of the admin registry only, and the display of
\* the failure returned
C22_Witness ==
    /\ hpc = "returned"
    /\ ~is_admin
    /\ args = <<"cmd">>
    /\ "cmd" \in DOMAIN admin_cmds
    /\ "cmd" \notin DOMAIN user_cmds
    /\ edits = <<Unrecognized>>
    /\ invoked = <<>>

(***************************************************************************)
(* Claims about permissions.                                               *)
(***************************************************************************)

Elevated == ADMIN_ROLES \cup {EVAL_ROLE}

LastRan == ran[Len(ran)]

C26_StopAfterConfirm ==
    /\ [](stop.exited <=> hpc = "exited")
    /\ [](stop.exited =>
            /\ stop.confirmed
            /\ stop.status = (IF stop.no_restart THEN 1 ELSE 0)
            /\ edits = <<>>
            /\ logs = 0)
    /\ [][/\ hpc' = "exited" => hpc \in {"stop", "exited"}
          /\ (hpc = "stop" /\ hpc' # "exited")
               => /\ hpc' = "except"
                  /\ ~stop'.exited
                  /\ ~stop'.confirmed]_vars

\* kh!stop with no_restart ended the process with status 1
C26_Witness ==
    /\ hpc = "exited"
    /\ stop.no_restart
    /\ stop.confirmed
    /\ stop.status = 1
    /\ invoked # <<>>

(***************************************************************************)
(* Further claims about the external tool guard.                           *)
(***************************************************************************)

\* C27: every execution attempt of run_kcr, the first and the retry, is made
\* with is_pulling false and no task inside the pull sequence; between the
\* test of the flag and the end of subprocess.run the task holds the event
\* loop, so no step of a pull falls into an execution.
C27_NoExecWhilePulling ==
    /\ [](\A t \in Tasks :
            tpc[t] = "exec" =>
                /\ cur = t
                /\ ~is_pulling
                /\ \A u \in Tasks : ~InPull(u))
    /\ [][\A t \in Tasks :
            nexec'[t] # nexec[t] =>
                /\ tpc[t] = "exec"
                /\ ~is_pulling
                /\ \A u \in Tasks : ~InPull(u)
                /\ is_pulling' = is_pulling
                /\ installed' = installed
                /\ temp' = temp]_vars

\* a run_kcr executes its retry while the other task, whose pull request
\* came during the first one's own pull, has ended
C27_Witness ==
    \E t, u \in Tasks :
        /\ t # u
        /\ tpc[t] = "exec"
        /\ nexec[t] = 1
        /\ npull[t] = 1
        /\ kind[u] = "pull"
        /\ result[u] = "AlreadyPulling"

\* C28: an execution of run_kcr that exceeds its timeout ends the call with
\* the timeout error in that step: the call starts no pull and no further
\* execution, and is_pulling is left as it was; every attempt of the call
\* before the last was a miss, each followed by the one pull.
C28_TimeoutNotRetried ==
    /\ [](\A t \in Tasks :
            result[t] = "Timeout" =>
                /\ tpc[t] = "done"
                /\ kind[t] = "run"
                /\ nmiss[t] = nexec[t] - 1
                /\ npull[t] = nmiss[t])
    /\ [][\A t \in Tasks :
            /\ (result'[t] = "Timeout" /\ result[t] # "Timeout")
                 => /\ tpc[t] = "exec"
                    /\ installed
                    /\ nexec'[t] = nexec[t] + 1
                    /\ npull'[t] = npull[t]
                    /\ nmiss'[t] = nmiss[t]
                    /\ is_pulling' = is_pulling
                    /\ \A u \in Tasks : InPull(u)' = InPull(u)
            /\ result[t] = "Timeout"
                 => /\ result'[t] = "Timeout"
                    /\ nexec'[t] = nexec[t]
                    /\ npull'[t] = npull[t]]_vars

\* the first execution of a run_kcr call timed out
C28_Witness ==
    \E t \in Tasks :
        /\ result[t] = "Timeout"
        /\ nexec[t] = 1
        /\ npull[t] = 0
        /\ ~is_pulling

\* C29: whenever a task leaves the pull sequence it entered with the flag
\* acquired, by success or by a failure at any step, the staging directory
\* does not exist when control returns to the caller.
C29_StagingRemoved ==
    [][\A t \in Tasks : (InPull(t) /\ ~InPull(t)') => ~temp']_vars

(***************************************************************************)
(* Claims about the command registry.                                      *)
(***************************************************************************)

\* C30: no kh!help changes the groups mapping or the handler list of a
\* group, and a help request that is repeated is answered with the pages
\* of its last answer.
C30_RegistryFixed ==
    [][/\ groups' = groups
       /\ \A n \in HelpNames :
            (helped[n].asked /\ helped'[n].asked)
                => helped'[n].pages = helped[n].pages]_vars

(***************************************************************************)
(* Claims about the termination of run_kcr.                                *)
(***************************************************************************)

\* C31: every call of run_kcr eventually completes (returns the tool's
\* output or raises), the event loop being weakly fair and every started
\* pull and every execution of the tool ending; its polling wait for a pull
\* in flight always ends.
C31_RunCompletes ==
    \A t \in Tasks : (kind[t] = "run") ~> (tpc[t] = "done")

(***************************************************************************)
(* Claims about the pair get_perms returns.                                *)
(***************************************************************************)

C37_RefusalHasNoEffect ==
    [][\A t \in Tasks :
          (result[t] # "AlreadyPulling" /\ result'[t] = "AlreadyPulling")
          => /\ is_pulling /\ is_pulling'
             /\ temp' = temp
             /\ installed' = installed
             /\ \A u \in Tasks : InPull(u)
                   => tpc'[u] = tpc[u] /\ pending'[u] = pending[u]]_vars

\* a call was rejected while the pull in flight awaits its last message
\* edit, with the staging directory and the new installation on disk
C37_Witness ==
    \E t, u \in Tasks :
        /\ result[t] = "AlreadyPulling"
        /\ tpc[u] = "replace2"
        /\ is_pulling /\ temp /\ installed

\* C38: the pull that run_kcr starts itself after a missing-binary result is
\* never rejected as already pulling: from the end of its wait for the flag
\* to pull_kithare's acquisition of the flag the task keeps the event loop,
\* so no other task starts a pull in between.
C38_OwnPullNotRefused ==
    \A t \in Tasks :
        kind[t] = "run" =>
            /\ result[t] # "AlreadyPulling"
            /\ tpc[t] \in {"exec", "enter"} => cur = t /\ ~is_pulling

\* a run_kcr call is inside the pull it started, and the pull another task
\* requested meanwhile is the one that was rejected
C38_Witness ==
    \E t, u \in Tasks :
        /\ kind[t] = "run" /\ npull[t] = 1 /\ InPull(t)
        /\ result[u] = "AlreadyPulling"

\* the results of a pull that failed at the fetch or at the choice of the
\* installer
FailedPull == {"FetchFailed", "NoMatchingPackage"}

\* C39: a pull that fails because the fetch returns no archive or because
\* no matching package is found leaves the tool binary that was installed
\* before the call in place: on a host where the binary was installed and
\* no other call was made, the binary is there when the pull has failed.
C39_FailedPullKeepsTool ==
    \A t \in Tasks :
        (/\ kind[t] = "pull" /\ result[t] \in FailedPull
         /\ \A u \in Tasks \ {t} : kind[u] = "none")
        => installed

(***************************************************************************)
(* Claims about the end of PagedEmbed.mainloop.                            *)
(***************************************************************************)

\* positions of mainloop between the return of a wait_for and the next
\* test of self.killed: the check and the handling of an event
InEvent == {"got", "removing", "handle", "editing"}

\* C40: whenever the mainloop of a multi-page session ends after its
\* control reactions were attached, by STOP, by timeout, or by an error
\* raised while checking or handling an event, the control reactions have
\* been cleared from the message.
C40_ControlsCleared ==
    [][\A s \in Sess :
          \/ /\ spc[s] \in InEvent
             /\ spc'[s] = "raised"
          \/ /\ spc[s] = "clearing"
             /\ spc'[s] = "returned"
          => controls'[smsg[s]] = {}]_vars

(***************************************************************************)
(* Claims about kh!pull kithscord.                                         *)
(***************************************************************************)

\* the steps are the first git commands of the loop in its order, and each
\* one before the last exited with zero
InOrder(steps) ==
    /\ Len(steps) <= Len(GitSteps)
    /\ \A i \in 1..Len(steps) :
          /\ steps[i].cmd = GitSteps[i]
          /\ i < Len(steps) => steps[i].ends = "zero"

\* fetch, checkout and reset were run and exited with zero
AllSucceeded(steps) ==
    /\ Len(steps) = Len(GitSteps)
    /\ \A i \in 1..Len(steps) : steps[i].ends = "zero"

\* C35: kh!pull kithscord runs the git steps strictly in the order fetch,
\* checkout, reset; it stops at the first step that exits non-zero with the
\* 'Kithscord pull failed!' failure and runs no later step; it reaches
\* cmd_stop only after all three steps succeeded; and in local-test mode it
\* runs no git step and never stops the process.
C35_GitStepsInOrder ==
    /\ InOrder(gran)
    /\ gpc \in {"reply", "stop", "exited"} => AllSucceeded(gran)
    /\ local_test => gran = <<>> /\ gpc \in {"idle", "pull_kithare"}
    /\ \A k \in 1..Len(gout) :
          /\ InOrder(gout[k].steps)
          /\ (\E i \in 1..Len(gout[k].steps) :
                 gout[k].steps[i].ends = "nonzero") <=> gout[k].how = "failed"
          /\ gout[k].how = "exited" => AllSucceeded(gout[k].steps)
          /\ local_test => /\ gout[k].steps = <<>>
                           /\ gout[k].how \in {"blocked", "pull_raised"}

\* a call stopped at a checkout that exited non-zero, and the next call ran
\* the three steps and restarted the process
C35_Witness ==
    /\ Len(gout) = 2
    /\ gout[1].how = "failed" /\ Len(gout[1].steps) = 2
    /\ gout[2].how = "exited" /\ gpc = "exited"

(***************************************************************************)
(* Claims about common.cmd_logs.                                           *)
(***************************************************************************)

\* C32: after any interleaving of handle_message, message_edit and
\* message_delete tasks cmd_logs holds at most 100 entries whenever control
\* is at a suspension point; the insertion of handle_message leaves the new
\* entry in the dict, and the entry it evicts, when the dict exceeds 100, is
\* the one that was inserted earliest.
C32_LogBounded ==
    /\ [](Len(cmd_logs) <= LogCap)
    /\ [][\A m \in NewMsgs :
            (mpc[m] = "handle" /\ mpc'[m] = "done" /\ ninserted' # ninserted) =>
               /\ cmd_logs'[Len(cmd_logs')].id = m
               /\ \A i \in 1..Len(cmd_logs) :
                     cmd_logs[i].id \notin LogKeys(cmd_logs') =>
                        /\ Len(cmd_logs) = LogCap
                        /\ \A j \in 1..Len(cmd_logs) :
                              cmd_logs[i].at <= cmd_logs[j].at]_vars

\* the dict was full, a command was handled, and the entry of the command
\* handled first is gone though no message was deleted
C32_Witness ==
    /\ ninserted = LogCap + 1
    /\ Len(cmd_logs) = LogCap
    /\ 1 \notin LogKeys(cmd_logs)
    /\ deleted = {}

\* C33: cmd_logs never contains an entry whose invoking message, or whose
\* recorded response message, has been reported deleted through
\* message_delete, the deletions delivered while the command of the message
\* is being handled included.
C33_NoDeletedEntries ==
    \A i \in 1..Len(cmd_logs) :
        /\ cmd_logs[i].id \notin deleted
        /\ cmd_logs[i].resp \notin deleted

\* C34: message_edit re-dispatches an edited message if and only if its new
\* content starts with the prefix and its id has an entry in cmd_logs, and
\* then handle is given the response message recorded for it: no response
\* message is sent and cmd_logs is left unchanged, by the call and by the
\* end of the handle it awaits; an edit of a message with no entry starts
\* nothing.
C34_EditRedispatch ==
    [][/\ Len(edited') = Len(edited) + 1 =>
            LET e == edited'[Len(edited')] IN
            /\ e.dispatched <=> (e.prefix /\ e.msg \in LogKeys(cmd_logs))
            /\ e.dispatched =>
                  /\ e.resp = LogGet(cmd_logs, e.msg)
                  /\ etask' = [pc |-> "handle", msg |-> e.msg, resp |-> e.resp]
            /\ ~e.dispatched => etask' = etask
            /\ cmd_logs' = cmd_logs /\ sent' = sent
       /\ (etask.pc = "handle" /\ etask'.pc = "idle") =>
            cmd_logs' = cmd_logs /\ sent' = sent]_vars

\* an edit of a message whose command was still being handled started
\* nothing, and a later edit of the same message was dispatched with the
\* response recorded for it
C34_Witness ==
    /\ Len(edited) = 2
    /\ edited[1].prefix /\ ~edited[1].dispatched
    /\ edited[2].msg = edited[1].msg
    /\ edited[2].dispatched /\ edited[2].resp = Resp(edited[2].msg)
    /\ etask.pc = "handle"

====
